---- MODULE Spec2Model ----
(***************************************************************************)
(* Model of the trial-balance ETL of duck_ui5 (src/scripts):               *)
(*   utils.pad_account_code, transform_trial_balances.parse_period_column, *)
(*   get_category, calculate_display_value and the pipeline function       *)
(*   transform_trial_balances (load, period columns, identity-column       *)
(*   check, unpivot, display value, profit rows, finalisation, write).     *)
(* Text is a sequence of one-character strings, so that padding, prefix    *)
(* tests, slicing, parsing and formatting are computed, not assumed.       *)
(* A cell of a table is a record [t, s, n]: t = "null" | "str" | "num".    *)
(***************************************************************************)
EXTENDS Integers, Sequences, FiniteSets, TLC

VARIABLES
    pc,              \* position of the operation under way
    code_in,         \* pad_account_code: one element of code_series
    code_out,        \* pad_account_code: the element of the result
    col_name,        \* parse_period_column: its argument
    parsed,          \* parse_period_column: what it returned or raised
    columns,         \* df.columns of the loaded workbook
    df,              \* the wide rows of the loaded workbook
    period_columns,  \* [(col, JaarPeriode, LastDate)]
    fact_df,         \* long rows after melt / dropna / DisplayValue
    profit_rows,     \* the synthesized rows
    final_df,        \* the table handed to write_to_duckdb
    store,           \* table fct_TrialBalances of the output database
    store_before,    \* that table as the run found it
    error,           \* the exception that ended the run, if any
    warnings,        \* the warnings printed by the run
    exit_status,     \* <<>> while main runs, then <<its return value>>
    stderr,          \* what main printed to sys.stderr
    run,             \* 1 for the first run of the pipeline, 2 for a run repeated on the same file
    sch_df,          \* apply_schema: the table given
    sch_schema,      \* apply_schema: the column -> dtype map given, in dict order
    sch_once,        \* apply_schema(df, schema) and the warnings it printed
    sch_twice,       \* apply_schema(apply_schema(df, schema), schema), likewise
    prog,            \* the entry point that was started
    open_cons,       \* the DuckDB connections that are open
    src1,            \* combine_databases: the file transactions_db and its table transactions
    src2,            \* combine_databases: the file trial_balances_db and its table fct_TrialBalances
    out_db,          \* combine_databases: the file output_db and its two tables
    attached,        \* combine_databases: the aliases attached to the connection
    sql_log,         \* the statements executed on the connection, in order
    transaction_count,    \* combine_databases: local of line 72, <<>> before it is set
    trial_balance_count,  \* combine_databases: local of line 80, <<>> before it is set
    dump_df,         \* process_dump: df
    dump_store,      \* process_dump: the table transactions of its output database
    if_exists,       \* write_to_duckdb: the argument if_exists
    row_count,       \* write_to_duckdb: the value returned, <<>> before it returns
    val_tx,          \* validate_account_codes: the transactions file
    val_tb,          \* validate_account_codes: the trial balances file
    val_out          \* validate_account_codes: its locals and the value returned

vars == <<pc, code_in, code_out, col_name, parsed, columns, df, period_columns,
          fact_df, profit_rows, final_df, store, store_before, error,
          warnings, exit_status, stderr, run, sch_df, sch_schema, sch_once, sch_twice,
          prog, open_cons, src1, src2, out_db, attached, sql_log, transaction_count,
          trial_balance_count, dump_df, dump_store,
          if_exists, row_count, val_tx, val_tb, val_out>>

padVars == <<code_in, code_out>>
parseVars == <<col_name, parsed>>
pipeVars == <<columns, df, period_columns, fact_df, profit_rows, final_df, store,
              store_before, error>>
runVars == <<exit_status, stderr, run, prog>>
schemaVars == <<sch_df, sch_schema, sch_once, sch_twice>>
writeVars == <<if_exists, row_count>>
validateVars == <<val_tx, val_tb, val_out>>
combineVars == <<src1, src2, out_db, attached, sql_log, transaction_count, trial_balance_count>>
dumpVars == <<dump_df, dump_store>>
nonPipeVars == <<padVars, parseVars, schemaVars, writeVars, validateVars, combineVars, dumpVars, open_cons>>

(***************************************************************************)
(* Bounds of the checked inputs.                                           *)
(***************************************************************************)
MaxCodeLen == 5
MaxRows == 2

(***************************************************************************)
(* Characters and Python's string primitives.                              *)
(***************************************************************************)
LowerChars == <<"a", "b", "c", "d", "e", "f", "g", "h", "i", "j", "k", "l", "m",
                "n", "o", "p", "q", "r", "s", "t", "u", "v", "w", "x", "y", "z">>
UpperChars == <<"A", "B", "C", "D", "E", "F", "G", "H", "I", "J", "K", "L", "M",
                "N", "O", "P", "Q", "R", "S", "T", "U", "V", "W", "X", "Y", "Z">>
Digits == <<"0", "1", "2", "3", "4", "5", "6", "7", "8", "9">>

IndexOf(seq, c) == IF \E i \in 1..Len(seq) : seq[i] = c
                   THEN CHOOSE i \in 1..Len(seq) : seq[i] = c
                   ELSE 0

IsDigit(c) == IndexOf(Digits, c) # 0
DigitVal(c) == IndexOf(Digits, c) - 1

\* str.lower(), character by character
LowerChar(c) == IF IndexOf(UpperChars, c) # 0 THEN LowerChars[IndexOf(UpperChars, c)] ELSE c
str_lower(s) == [i \in 1..Len(s) |-> LowerChar(s[i])]

\* str.startswith(prefix)
str_startswith(s, prefix) ==
    /\ Len(s) >= Len(prefix)
    /\ \A i \in 1..Len(prefix) : s[i] = prefix[i]

\* s[-k:] : the last k characters, the whole string when it is shorter
str_last(s, k) == IF Len(s) <= k THEN s ELSE SubSeq(s, Len(s) - k + 1, Len(s))

\* str.strip() of blanks, as int() does before parsing
RECURSIVE lstrip(_)
lstrip(s) == IF Len(s) > 0 /\ s[1] = " " THEN lstrip(Tail(s)) ELSE s
RECURSIVE rstrip(_)
rstrip(s) == IF Len(s) > 0 /\ s[Len(s)] = " " THEN rstrip(SubSeq(s, 1, Len(s) - 1)) ELSE s

RECURSIVE DigitsToNat(_)
DigitsToNat(ds) == IF ds = <<>> THEN 0
                   ELSE DigitsToNat(SubSeq(ds, 1, Len(ds) - 1)) * 10 + DigitVal(ds[Len(ds)])

\* an int() literal body: digits, single underscores allowed between digits
IsIntBody(b) ==
    /\ Len(b) > 0
    /\ IsDigit(b[1]) /\ IsDigit(b[Len(b)])
    /\ \A i \in 1..Len(b) : IsDigit(b[i]) \/ b[i] = "_"
    /\ \A i \in 1..(Len(b) - 1) : ~(b[i] = "_" /\ b[i + 1] = "_")

\* int(s): [ok |-> FALSE] stands for ValueError
PyInt(s) ==
    LET t == rstrip(lstrip(s))
        signed == Len(t) > 0 /\ t[1] \in {"+", "-"}
        body == IF signed THEN Tail(t) ELSE t
        mag == DigitsToNat(SelectSeq(body, IsDigit))
    IN  IF IsIntBody(body)
        THEN [ok |-> TRUE, n |-> IF signed /\ t[1] = "-" THEN 0 - mag ELSE mag]
        ELSE [ok |-> FALSE, n |-> 0]

RECURSIVE NatToStr(_)
NatToStr(n) == IF n < 10 THEN <<Digits[n + 1]>>
               ELSE NatToStr(n \div 10) \o <<Digits[(n % 10) + 1]>>

\* str(n) of an integer
IntToStr(n) == IF n < 0 THEN <<"-">> \o NatToStr(0 - n) ELSE NatToStr(n)

Zeros(k) == [i \in 1..k |-> "0"]

\* str.zfill(width): zeros go after a leading sign
str_zfill(s, width) ==
    IF Len(s) >= width THEN s
    ELSE IF Len(s) > 0 /\ s[1] \in {"+", "-"}
         THEN <<s[1]>> \o Zeros(width - Len(s)) \o Tail(s)
         ELSE Zeros(width - Len(s)) \o s

\* f"{n:0{width}d}": sign-aware zero padding of an integer
PyFormatD(n, width) ==
    LET mag == NatToStr(IF n < 0 THEN 0 - n ELSE n)
        sign == IF n < 0 THEN <<"-">> ELSE <<>>
        fill == width - Len(sign) - Len(mag)
    IN  sign \o (IF fill > 0 THEN Zeros(fill) ELSE <<>>) \o mag

(***************************************************************************)
(* Cells.                                                                  *)
(***************************************************************************)
NullV == [t |-> "null", s |-> <<>>, n |-> 0]
StrV(s) == [t |-> "str", s |-> s, n |-> 0]
NumV(n) == [t |-> "num", s |-> <<>>, n |-> n]
\* NullV is a missing cell (NaN), NoneV the Python object None
NoneV == [t |-> "none", s |-> <<>>, n |-> 0]

\* a float, in tenths: FloatV(30) is 3.0, FloatV(15) is 1.5
FloatV(n) == [t |-> "float", s |-> <<>>, n |-> n]
\* a Timestamp, by its ISO text
DateV(s) == [t |-> "date", s |-> s, n |-> 0]
BoolV(b) == [t |-> "bool", s |-> <<>>, n |-> IF b THEN 1 ELSE 0]

\* str(x) of a float with one decimal
FloatToStr(n) ==
    LET a == IF n < 0 THEN 0 - n ELSE n
    IN  (IF n < 0 THEN <<"-">> ELSE <<>>) \o NatToStr(a \div 10) \o <<".">> \o NatToStr(a % 10)

\* pd.notna(x)
notna(x) == x.t \notin {"null", "none"}

\* the variant that takes repr(x) of a text instead of str(x)
astype_str_repr(x) ==
    CASE x.t = "str" -> <<"'">> \o x.s \o <<"'">>
      [] x.t = "num" -> IntToStr(x.n)
      [] x.t = "none" -> <<"N", "o", "n", "e">>
      [] x.t = "float" -> FloatToStr(x.n)
      [] x.t = "date" -> x.s
      [] x.t = "bool" -> IF x.n = 1 THEN <<"T", "r", "u", "e">> ELSE <<"F", "a", "l", "s", "e">>
      [] OTHER -> <<"n", "a", "n">>
\* str(x) of one element, as Series.astype(str) applies it
astype_str(x) ==
    CASE x.t = "str" -> x.s
      [] x.t = "num" -> IntToStr(x.n)
      [] x.t = "none" -> <<"N", "o", "n", "e">>
      [] x.t = "float" -> FloatToStr(x.n)
      [] x.t = "date" -> x.s
      [] x.t = "bool" -> IF x.n = 1 THEN <<"T", "r", "u", "e">> ELSE <<"F", "a", "l", "s", "e">>
      [] OTHER -> <<"n", "a", "n">>

(***************************************************************************)
(* utils.pad_account_code, element by element.                             *)
(***************************************************************************)
PadWidth == 4

pad_account_code(code) == str_zfill(astype_str(code), PadWidth)

(***************************************************************************)
(* transform_trial_balances.parse_period_column                            *)
(***************************************************************************)
OPENING == <<"o", "p", "e", "n", "i", "n", "g", "s", "b", "a", "l", "a", "n", "s">>

MONTH_MAP == <<
    [name |-> <<"j", "a", "n", "u", "a", "r", "i">>, num |-> 1],
    [name |-> <<"f", "e", "b", "r", "u", "a", "r", "i">>, num |-> 2],
    [name |-> <<"m", "a", "a", "r", "t">>, num |-> 3],
    [name |-> <<"a", "p", "r", "i", "l">>, num |-> 4],
    [name |-> <<"m", "e", "i">>, num |-> 5],
    [name |-> <<"j", "u", "n", "i">>, num |-> 6],
    [name |-> <<"j", "u", "l", "i">>, num |-> 7],
    [name |-> <<"a", "u", "g", "u", "s", "t", "u", "s">>, num |-> 8],
    [name |-> <<"s", "e", "p", "t", "e", "m", "b", "e", "r">>, num |-> 9],
    [name |-> <<"o", "k", "t", "o", "b", "e", "r">>, num |-> 10],
    [name |-> <<"n", "o", "v", "e", "m", "b", "e", "r">>, num |-> 11],
    [name |-> <<"d", "e", "c", "e", "m", "b", "e", "r">>, num |-> 12] >>

\* calendar.isleap and calendar.monthrange(year, month)[1]
isleap(year) == year % 4 = 0 /\ (year % 100 # 0 \/ year % 400 = 0)
mdays == <<31, 28, 31, 30, 31, 30, 31, 31, 30, 31, 30, 31>>
monthrange_days(year, month) == mdays[month] + (IF month = 2 /\ isleap(year) THEN 1 ELSE 0)

\* datetime.date(year, month, day) raises ValueError outside MINYEAR..MAXYEAR
MINYEAR == 1
MAXYEAR == 9999
date_ok(year) == MINYEAR <= year /\ year <= MAXYEAR

NoDate == <<0, 0, 0>>
ParsedPair(key, d) == [kind |-> "pair", key |-> key, date |-> d, exc |-> "-"]
ParsedNone == [kind |-> "none", key |-> <<>>, date |-> NoDate, exc |-> "-"]
ParsedRaise(e) == [kind |-> "raise", key |-> <<>>, date |-> NoDate, exc |-> e]

\* the opening-balance branch, lines 61-63
parse_opening(name) ==
    LET year == PyInt(str_last(name, 4))
    IN  IF ~year.ok THEN ParsedRaise("ValueError")
        ELSE IF ~date_ok(year.n) THEN ParsedRaise("ValueError")
        ELSE ParsedPair(IntToStr(year.n) \o <<"-", "0", "0">>, <<year.n, 1, 1>>)

\* the body of the month loop for the month that matched, lines 68-70
parse_month(name, month_num) ==
    LET year == PyInt(str_last(name, 4))
    IN  IF ~year.ok THEN ParsedRaise("ValueError")
        ELSE IF ~date_ok(year.n) THEN ParsedRaise("ValueError")
        ELSE ParsedPair(IntToStr(year.n) \o <<"-">> \o PyFormatD(month_num, 2),
                        <<year.n, month_num, monthrange_days(year.n, month_num)>>)

\* line 58, with the variant that forgets to lower-case
col_lower_asis(name) == name
col_lower(name) == str_lower(name)

parse_period_column(name) ==
    LET low == col_lower(name)
        hits == {i \in 1..Len(MONTH_MAP) : str_startswith(low, MONTH_MAP[i].name)}
    IN  IF str_startswith(low, OPENING) THEN parse_opening(name)
        ELSE IF hits # {}
             THEN LET first == CHOOSE i \in hits : \A j \in hits : i <= j
                  IN  parse_month(name, MONTH_MAP[first].num)
             ELSE ParsedNone

(***************************************************************************)
(* Inputs of the two pure-function specifications.                         *)
(***************************************************************************)
UpperChar(c) == IF IndexOf(LowerChars, c) # 0 THEN UpperChars[IndexOf(LowerChars, c)] ELSE c
CaseLower(s) == s
CaseUpper(s) == [i \in 1..Len(s) |-> UpperChar(s[i])]
CaseTitle(s) == [i \in 1..Len(s) |-> IF i = 1 THEN UpperChar(s[i]) ELSE s[i]]
CaseMixed(s) == [i \in 1..Len(s) |-> IF i % 2 = 0 THEN UpperChar(s[i]) ELSE s[i]]
CaseVariants(s) == {CaseLower(s), CaseUpper(s), CaseTitle(s), CaseMixed(s)}

Keywords == {OPENING} \cup {MONTH_MAP[i].name : i \in 1..Len(MONTH_MAP)}
OtherWords == { <<"r", "a", "n", "d", "o", "m", "c", "o", "l", "u", "m", "n">>,
                <<"n", "o", "t", "e", "s">>,
                <<"s", "a", "l", "d", "o">>,
                <<>> }

\* years written with four digits, first digit not zero
FourDigitYears == { <<"2", "0", "2", "5">>, <<"2", "0", "2", "4">>, <<"2", "0", "2", "3">>,
                    <<"1", "9", "0", "0">>, <<"2", "0", "0", "0">>, <<"2", "1", "0", "0">>,
                    <<"1", "0", "0", "0">>, <<"9", "9", "9", "9">> }
\* other endings a header can have
OtherSuffixes == { <<"0", "9", "9", "9">>, <<"0", "0", "1", "2">>, <<"0", "0", "0", "0">>,
                   <<>>, <<"2", "5">>, <<"2", "0", "x", "5">>, <<"n", "o", "t", "e">>,
                   <<"+", "1", "2", "3">>, <<"-", "2", "0", "2">>, <<" ", "2", "0", "2">>,
                   <<"2", "_", "2", "5">>, <<"2", "0", "2", "5", ".", "1">>,
                   <<"_", "2", "0", "2", "5">> }

Headers == { v \o y : v \in UNION {CaseVariants(w) : w \in Keywords \cup OtherWords},
                      y \in FourDigitYears \cup OtherSuffixes }

CodeChars == {"0", "1", "9", "-", "+", "a"}
CodeStrings == UNION {[1..k -> CodeChars] : k \in 0..MaxCodeLen}
CodeNumbers == {-120, -5, 0, 7, 10, 100, 999, 1000, 12345}
CodeInputs == {StrV(s) : s \in CodeStrings} \cup {NumV(n) : n \in CodeNumbers}

(***************************************************************************)
(* utils.apply_schema (lines 120-151; process_dump.apply_schema, lines     *)
(* 58-83, is the same loop).  A table is its column names and, per column, *)
(* a dtype and the cells.                                                  *)
(***************************************************************************)
Column(dtype, cells) == [dtype |-> dtype, cells |-> cells]

\* pd.to_numeric(errors="coerce") of one element
IsNumberText(s) ==
    LET t == rstrip(lstrip(s))
        body == IF Len(t) > 0 /\ t[1] \in {"+", "-"} THEN Tail(t) ELSE t
    IN  Len(body) > 0 /\ \A i \in 1..Len(body) : IsDigit(body[i])
\* digits, a point and one digit, with an optional sign
IsDecimalText(s) ==
    LET t == rstrip(lstrip(s))
        body == IF Len(t) > 0 /\ t[1] \in {"+", "-"} THEN Tail(t) ELSE t
    IN  /\ Len(body) >= 3
        /\ body[Len(body) - 1] = "."
        /\ \A i \in 1..Len(body) : i # Len(body) - 1 => IsDigit(body[i])
DecimalTenths(s) ==
    LET t == rstrip(lstrip(s))
        body == IF Len(t) > 0 /\ t[1] \in {"+", "-"} THEN Tail(t) ELSE t
        mag == DigitsToNat(SelectSeq(body, IsDigit))
    IN  IF Len(t) > 0 /\ t[1] = "-" THEN 0 - mag ELSE mag
to_numeric_coerce(x) ==
    CASE x.t \in {"num", "float", "bool"} -> x
      [] x.t = "str" /\ IsNumberText(x.s) -> NumV(PyInt(x.s).n)
      [] x.t = "str" /\ IsDecimalText(x.s) -> FloatV(DecimalTenths(x.s))
      [] OTHER -> NullV

\* an int held in a float64 array
ToFloat(x) == IF x.t = "num" THEN FloatV(10 * x.n) ELSE x

\* pd.to_numeric(series, errors="coerce"): an object column becomes int64 when
\* every element is an integer, float64 otherwise; a numeric column is kept
to_numeric(c) ==
    IF c.dtype \in {"int64", "float64", "Int64", "bool"} THEN c
    ELSE LET out == [i \in 1..Len(c.cells) |-> to_numeric_coerce(c.cells[i])]
         IN  IF \A i \in 1..Len(out) : out[i].t = "num"
             THEN Column("int64", out)
             ELSE Column("float64", [i \in 1..Len(out) |-> ToFloat(out[i])])

\* Series.astype("Int64"): TypeError on a float that is not a whole number
astype_Int64_raises(c) ==
    \E i \in 1..Len(c.cells) : c.cells[i].t = "float" /\ c.cells[i].n % 10 # 0
astype_Int64(c) ==
    Column("Int64", [i \in 1..Len(c.cells) |->
        IF c.cells[i].t = "float" THEN NumV(c.cells[i].n \div 10) ELSE c.cells[i]])

\* pd.to_datetime(series, errors="coerce") of text: YYYY-MM-DD of a real day
\* within the range of a nanosecond Timestamp
IsDateText(s) ==
    /\ Len(s) = 10
    /\ s[5] = "-" /\ s[8] = "-"
    /\ \A i \in {1, 2, 3, 4, 6, 7, 9, 10} : IsDigit(s[i])
    /\ LET y == DigitsToNat(SubSeq(s, 1, 4))
           m == DigitsToNat(SubSeq(s, 6, 7))
           d == DigitsToNat(SubSeq(s, 9, 10))
       IN  /\ 1678 <= y /\ y <= 2261
           /\ 1 <= m /\ m <= 12
           /\ 1 <= d /\ d <= monthrange_days(y, m)
\* (a number would become the Timestamp that many nanoseconds after the epoch;
\* the checked tables declare no numeric column as temporal, and the operator
\* is not defined for one)
to_datetime_coerce(x) ==
    CASE x.t = "date" -> x
      [] x.t = "str" /\ IsDateText(x.s) -> DateV(x.s)
      [] x.t = "str" /\ ~IsDateText(x.s) -> NullV
      [] x.t \in {"null", "none"} -> NullV
to_datetime(c) ==
    Column("datetime64[ns]", [i \in 1..Len(c.cells) |-> to_datetime_coerce(c.cells[i])])

\* Series.astype("str")
astype_str_column(c) ==
    Column("object", [i \in 1..Len(c.cells) |-> StrV(astype_str(c.cells[i]))])

\* Series.astype("bool"): the truth value of each element (NaN is true)
truth(x) ==
    CASE x.t \in {"num", "float", "bool"} -> x.n # 0
      [] x.t = "str" -> x.s # <<>>
      [] x.t = "none" -> FALSE
      [] OTHER -> TRUE
astype_other(c, dtype) ==
    Column(dtype, [i \in 1..Len(c.cells) |-> BoolV(truth(c.cells[i]))])

\* lines 127-149: the conversion of one column; when it raises the
\* assignment of line 130-146 is not made
convert_raises(c, dtype) ==
    dtype \in {"Int64", "int64"} /\ astype_Int64_raises(to_numeric(c))
convert(c, dtype) ==
    CASE dtype = "datetime64[ns]" -> to_datetime(c)
      [] dtype \in {"float64", "Float64"} -> to_numeric(c)
      [] dtype \in {"Int64", "int64"} -> astype_Int64(to_numeric(c))
      [] dtype = "str" -> astype_str_column(c)
      [] OTHER -> astype_other(c, dtype)

InSeq(seq, x) == \E i \in 1..Len(seq) : seq[i] = x
Position(seq, x) == CHOOSE i \in 1..Len(seq) : seq[i] = x
Warning(col, what) == [col |-> col, what |-> what]
Typed(cols, data, warns) == [cols |-> cols, data |-> data, warnings |-> warns]

\* one turn of the loop of line 122
apply_schema_step(acc, entry) ==
    IF ~InSeq(acc.cols, entry.col)
    THEN Typed(acc.cols, acc.data, Append(acc.warnings, Warning(entry.col, "not found")))
    ELSE LET k == Position(acc.cols, entry.col)
         IN  IF convert_raises(acc.data[k], entry.dtype)
             THEN Typed(acc.cols, acc.data, Append(acc.warnings, Warning(entry.col, "could not convert")))
             ELSE Typed(acc.cols, [acc.data EXCEPT ![k] = convert(acc.data[k], entry.dtype)], acc.warnings)

RECURSIVE apply_schema_loop(_, _)
apply_schema_loop(acc, schema) ==
    IF schema = <<>> THEN acc
    ELSE apply_schema_loop(apply_schema_step(acc, Head(schema)), Tail(schema))

\* apply_schema(df, schema): the typed copy, with the warnings printed
apply_schema(t, schema) == apply_schema_loop(Typed(t.cols, t.data, <<>>), schema)

\* the tables and schemas apply_schema is applied to
Entry(col, dtype) == [col |-> col, dtype |-> dtype]
TextPool == [dtype |-> "object", cells |-> {StrV(<<"1", "2">>), StrV(<<"x">>), StrV(<<"1", ".", "5">>), NoneV}]
NamePool == [dtype |-> "object", cells |-> {StrV(<<"x">>), NoneV, NullV}]
FloatPool == [dtype |-> "float64", cells |-> {FloatV(30), FloatV(15), NullV}]
IntPool == [dtype |-> "int64", cells |-> {NumV(3), NumV(0), NumV(0 - 5)}]
DatePool == [dtype |-> "object", cells |-> {StrV(<<"2", "0", "2", "5", "-", "0", "1", "-", "3", "1">>), StrV(<<"2", "0", "2", "5", "-", "0", "2", "-", "3", "0">>), StrV(<<"x">>), NoneV}]
SchemaCase(cols, pools, schema) == [cols |-> cols, pools |-> pools, schema |-> schema]
SchemaCases == {
    SchemaCase(<<"Saldo", "Omschrijving">>, <<TextPool, NamePool>>,
               <<Entry("Saldo", "float64"), Entry("Omschrijving", "str")>>),
    SchemaCase(<<"Boekingsnummer">>, <<TextPool>>,
               <<Entry("Boekingsnummer", "Int64"), Entry("Factuurnummer", "str")>>),
    SchemaCase(<<"CodeRelatiekostenplaats", "Value">>, <<FloatPool, IntPool>>,
               <<Entry("CodeRelatiekostenplaats", "Int64"), Entry("Value", "float64")>>),
    SchemaCase(<<"LastDate", "Code">>, <<DatePool, IntPool>>,
               <<Entry("DisplayValue", "float64"), Entry("LastDate", "datetime64[ns]"),
                 Entry("Code", "str")>>),
    SchemaCase(<<"Active", "Count">>, <<IntPool, IntPool>>,
               <<Entry("Active", "bool"), Entry("Count", "int64")>>),
    SchemaCase(<<"Saldo", "Flag">>, <<FloatPool, FloatPool>>,
               <<Entry("Saldo", "str"), Entry("Flag", "bool")>>) }
ColumnsOfCase(c, n) ==
    IF Len(c.cols) = 1
    THEN {<<Column(c.pools[1].dtype, a)>> : a \in [1..n -> c.pools[1].cells]}
    ELSE {<<Column(c.pools[1].dtype, a), Column(c.pools[2].dtype, b)>> :
              a \in [1..n -> c.pools[1].cells], b \in [1..n -> c.pools[2].cells]}
TablesOfCase(c) ==
    UNION {{[cols |-> c.cols, data |-> d] : d \in ColumnsOfCase(c, n)} : n \in 1..MaxRows}

(***************************************************************************)
(* Idle values of the variables a specification does not use.              *)
(***************************************************************************)
NoError == [type |-> "-", what |-> "-", missing |-> <<>>]
NoStore == [exists |-> FALSE, rows |-> <<>>]

NoTable == [cols |-> <<>>, data |-> <<>>]
NoTyped == [cols |-> <<>>, data |-> <<>>, warnings |-> <<>>]
SchemaIdle == sch_df = NoTable /\ sch_schema = <<>> /\ sch_once = NoTyped /\ sch_twice = NoTyped
NoTbl == [exists |-> FALSE, rows |-> <<>>]
NoFile == [file |-> FALSE, table |-> NoTbl]
NoOutput == [file |-> FALSE, transactions |-> NoTbl, fct_TrialBalances |-> NoTbl]
CombineIdle ==
    /\ src1 = NoFile /\ src2 = NoFile /\ out_db = NoOutput
    /\ attached = {} /\ sql_log = <<>>
    /\ transaction_count = <<>> /\ trial_balance_count = <<>>
NoDumpStore == [exists |-> FALSE, table |-> NoTable]
DumpIdle == dump_df = NoTable /\ dump_store = NoDumpStore
WriteIdle == if_exists = "-" /\ row_count = <<>>
NoSheet == [file |-> FALSE, column |-> FALSE, cells |-> <<>>]
NoReport == [transaction_codes |-> {}, trial_balance_codes |-> {}, missing_codes |-> {},
             extra_codes |-> {}, common_codes |-> {}, returned |-> <<>>, strict |-> FALSE]
ValidateIdle == val_tx = NoSheet /\ val_tb = NoSheet /\ val_out = NoReport
PadIdle == code_in = NullV /\ code_out = <<>>
ParseIdle == col_name = <<>> /\ parsed = ParsedNone
PipeIdle ==
    /\ columns = <<>> /\ df = <<>> /\ period_columns = <<>>
    /\ fact_df = <<>> /\ profit_rows = <<>> /\ final_df = <<>>
    /\ store = NoStore /\ store_before = NoStore /\ error = NoError
    /\ warnings = {} /\ exit_status = <<>> /\ stderr = <<>> /\ run = 1 /\ prog = "-"

(***************************************************************************)
(* SpecPad: pad_account_code applied to one element.                       *)
(***************************************************************************)
InitPad ==
    /\ pc = "pad_input"
    /\ code_in \in CodeInputs
    /\ code_out = <<>>
    /\ ParseIdle /\ PipeIdle /\ SchemaIdle /\ WriteIdle /\ ValidateIdle /\ CombineIdle /\ DumpIdle /\ open_cons = 0

PadAccountCode ==
    /\ pc = "pad_input"
    /\ code_out' = pad_account_code(code_in)
    /\ pc' = "pad_done"
    /\ UNCHANGED <<code_in, parseVars, pipeVars, warnings, runVars, schemaVars, writeVars, validateVars, combineVars, dumpVars, open_cons>>

NextPad == PadAccountCode

SpecPad == InitPad /\ [][NextPad]_vars

(***************************************************************************)
(* SpecParse: parse_period_column applied to one header.                   *)
(***************************************************************************)
InitParse ==
    /\ pc = "parse_input"
    /\ col_name \in Headers
    /\ parsed = ParsedNone
    /\ PadIdle /\ PipeIdle /\ SchemaIdle /\ WriteIdle /\ ValidateIdle /\ CombineIdle /\ DumpIdle /\ open_cons = 0

ParsePeriodColumn ==
    /\ pc = "parse_input"
    /\ parsed' = parse_period_column(col_name)
    /\ pc' = "parse_done"
    /\ UNCHANGED <<col_name, padVars, pipeVars, warnings, runVars, schemaVars, writeVars, validateVars, combineVars, dumpVars, open_cons>>

NextParse == ParsePeriodColumn

SpecParse == InitParse /\ [][NextParse]_vars

(***************************************************************************)
(* SpecSchema: apply_schema applied to a table, then to its own result.    *)
(***************************************************************************)
InitSchema ==
    /\ pc = "schema_input"
    /\ \E c \in SchemaCases :
          /\ sch_df \in TablesOfCase(c)
          /\ sch_schema = c.schema
    /\ sch_once = NoTyped /\ sch_twice = NoTyped
    /\ PadIdle /\ ParseIdle /\ PipeIdle /\ CombineIdle /\ DumpIdle /\ open_cons = 0
    /\ WriteIdle /\ ValidateIdle

ApplySchema ==
    /\ pc = "schema_input"
    /\ sch_once' = apply_schema(sch_df, sch_schema)
    /\ pc' = "schema_once"
    /\ UNCHANGED <<sch_df, sch_schema, sch_twice, padVars, parseVars, pipeVars, warnings, runVars, combineVars, dumpVars, open_cons, writeVars, validateVars>>

ApplySchemaAgain ==
    /\ pc = "schema_once"
    /\ sch_twice' = apply_schema([cols |-> sch_once.cols, data |-> sch_once.data], sch_schema)
    /\ pc' = "schema_twice"
    /\ UNCHANGED <<sch_df, sch_schema, sch_once, padVars, parseVars, pipeVars, warnings, runVars, combineVars, dumpVars, open_cons, writeVars, validateVars>>

NextSchema == ApplySchema \/ ApplySchemaAgain

SpecSchema == InitSchema /\ [][NextSchema]_vars

(***************************************************************************)
(* transform_trial_balances: the tables.                                   *)
(* df is a sequence of wide rows, each a sequence of cells aligned with    *)
(* columns.  A long row is a record of cells; LastDate is <<y, m, d>>.     *)
(***************************************************************************)
COL_ACCOUNT == <<"C", "o", "d", "e", "G", "r", "o", "o", "t", "b", "o", "e", "k", "r", "e", "k", "e", "n", "i", "n", "g">>
COL_ENTITY == <<"N", "a", "a", "m", "A", "d", "m", "i", "n", "i", "s", "t", "r", "a", "t", "i", "e">>
COL_CC_CODE == <<"C", "o", "d", "e", "R", "e", "l", "a", "t", "i", "e", "k", "o", "s", "t", "e", "n", "p", "l", "a", "a", "t", "s">>
COL_CC_NAME == <<"N", "a", "a", "m", "R", "e", "l", "a", "t", "i", "e", "k", "o", "s", "t", "e", "n", "p", "l", "a", "a", "t", "s">>
COL_DIMTYPE == <<"C", "o", "d", "e", "D", "i", "m", "e", "n", "s", "i", "e", "t", "y", "p", "e">>
COL_GROUP1 == <<"C", "o", "d", "e", "R", "a", "p", "p", "o", "r", "t", "a", "g", "e", "s", "t", "r", "u", "c", "t", "u", "u", "r", "g", "r", "o", "e", "p", "1">>

\* lines 149-156
id_columns == <<COL_ACCOUNT, COL_ENTITY, COL_CC_CODE, COL_CC_NAME, COL_DIMTYPE, COL_GROUP1>>

\* df[name] of one wide row
CellOf(cols, row, name) == row[IndexOf(cols, name)]

\* lines 140-144: None when some header makes parse_period_column raise
RaisingColumns(cols) == {i \in 1..Len(cols) : parse_period_column(cols[i]).kind = "raise"}
identify_period_columns(cols) ==
    LET P(i) == parse_period_column(cols[i])
        idx == SelectSeq([i \in 1..Len(cols) |-> i], LAMBDA i : P(i).kind = "pair")
    IN  [k \in 1..Len(idx) |-> [col |-> cols[idx[k]], key |-> P(idx[k]).key, date |-> P(idx[k]).date]]

\* line 159
missing_cols(cols) == SelectSeq(id_columns, LAMBDA c : ~InSeq(cols, c))

\* lines 167-172: DataFrame.melt, one block of rows per value column
MeltColumn(cols, rows, vc) ==
    [r \in 1..Len(rows) |->
        [CodeGrootboekrekening |-> CellOf(cols, rows[r], COL_ACCOUNT),
         NaamAdministratie |-> CellOf(cols, rows[r], COL_ENTITY),
         CodeRelatiekostenplaats |-> CellOf(cols, rows[r], COL_CC_CODE),
         NaamRelatiekostenplaats |-> CellOf(cols, rows[r], COL_CC_NAME),
         CodeDimensietype |-> CellOf(cols, rows[r], COL_DIMTYPE),
         CodeRapportagestructuurgroep1 |-> CellOf(cols, rows[r], COL_GROUP1),
         Period |-> vc,
         Value |-> CellOf(cols, rows[r], vc)]]

RECURSIVE melt(_, _, _)
melt(cols, rows, value_cols) ==
    IF value_cols = <<>> THEN <<>>
    ELSE MeltColumn(cols, rows, Head(value_cols)) \o melt(cols, rows, Tail(value_cols))

\* lines 175-177: period_info[x]
period_info(pcs, x) == LET i == CHOOSE i \in 1..Len(pcs) : pcs[i].col = x IN pcs[i]

\* the variant that writes the group code without padding it
code1_format_plain(x) ==
    IF ~notna(x) THEN NoneV
    ELSE IF x.t = "num" THEN StrV(IntToStr(x.n))
    ELSE StrV(IntToStr(PyInt(x.s).n))
\* line 186: f"{int(x):03d}" if pd.notna(x) else None
code1_raises(x) == x.t = "str" /\ ~PyInt(x.s).ok
code1_format(x) ==
    IF ~notna(x) THEN NoneV
    ELSE IF x.t = "num" THEN StrV(PyFormatD(x.n, 3))
    ELSE StrV(PyFormatD(PyInt(x.s).n, 3))

\* lines 176-189: JaarPeriode, LastDate, rename to Code0/Code1, Code1 as text, drop Period
long_row(pcs, m) ==
    [CodeGrootboekrekening |-> m.CodeGrootboekrekening,
     NaamAdministratie |-> m.NaamAdministratie,
     CodeRelatiekostenplaats |-> m.CodeRelatiekostenplaats,
     NaamRelatiekostenplaats |-> m.NaamRelatiekostenplaats,
     Code0 |-> m.CodeDimensietype,
     Code1 |-> code1_format(m.CodeRapportagestructuurgroep1),
     Value |-> m.Value,
     JaarPeriode |-> StrV(period_info(pcs, m.Period).key),
     LastDate |-> period_info(pcs, m.Period).date]

\* line 192: dropna(subset=["Value"]), with the variant that keeps the rows as zeros
dropna_fill_zero(rows) ==
    [i \in 1..Len(rows) |-> IF notna(rows[i].Value) THEN rows[i]
                            ELSE [rows[i] EXCEPT !.Value = NumV(0)]]
dropna_value(rows) == SelectSeq(rows, LAMBDA r : notna(r.Value))

\* lines 163-192
unpivot_raises(cols, rows, pcs) ==
    LET melted == melt(cols, rows, [k \in 1..Len(pcs) |-> pcs[k].col])
    IN  \E i \in 1..Len(melted) : code1_raises(melted[i].CodeRapportagestructuurgroep1)
unpivot(cols, rows, pcs) ==
    LET melted == melt(cols, rows, [k \in 1..Len(pcs) |-> pcs[k].col])
    IN  dropna_value([i \in 1..Len(melted) |-> long_row(pcs, melted[i])])

(***************************************************************************)
(* get_category and calculate_display_value, lines 75-95.                  *)
(***************************************************************************)
ACTIVA_CODES == {<<"0", "0", "0">>, <<"0", "1", "0">>, <<"0", "2", "0">>, <<"0", "3", "0">>, <<"0", "4", "0">>, <<"0", "5", "0">>}
PASSIVA_CODES == {<<"0", "6", "0">>, <<"0", "6", "5">>, <<"0", "7", "0">>, <<"0", "8", "0">>}
GROSS_MARGIN_CODES == {<<"5", "0", "0">>, <<"5", "1", "0">>}
EXPENSES_CODES == {<<"5", "2", "0">>, <<"5", "3", "0">>, <<"5", "4", "0">>, <<"5", "5", "0">>}

get_category(code1) ==
    IF code1 \in ACTIVA_CODES THEN "Activa"
    ELSE IF code1 \in PASSIVA_CODES THEN "Passiva"
    ELSE IF code1 \in GROSS_MARGIN_CODES THEN "Gross Margin"
    ELSE IF code1 \in EXPENSES_CODES THEN "Expenses"
    ELSE "None"

\* str(x) of a Python object: None prints as "None", NaN as "nan"
py_str(x) ==
    CASE x.t = "str" -> x.s
      [] x.t = "num" -> IntToStr(x.n)
      [] x.t = "none" -> <<"N", "o", "n", "e">>
      [] OTHER -> <<"n", "a", "n">>

\* the variant that forgets the sign correction of the liability side
calculate_display_value_unsigned(row) ==
    IF get_category(py_str(row.Code1)) = "None" THEN NoneV ELSE row.Value
calculate_display_value(row) ==
    LET category == get_category(py_str(row.Code1))
    IN  IF category = "Activa" THEN row.Value
        ELSE IF category \in {"Passiva", "Expenses", "Gross Margin"}
             THEN NumV(row.Value.n * (0 - 1))
             ELSE NoneV

\* line 197: fact_df.apply(calculate_display_value, axis=1)
with_display(row) ==
    [CodeGrootboekrekening |-> row.CodeGrootboekrekening,
     NaamAdministratie |-> row.NaamAdministratie,
     CodeRelatiekostenplaats |-> row.CodeRelatiekostenplaats,
     NaamRelatiekostenplaats |-> row.NaamRelatiekostenplaats,
     Code0 |-> row.Code0, Code1 |-> row.Code1, Value |-> row.Value,
     JaarPeriode |-> row.JaarPeriode, LastDate |-> row.LastDate,
     DisplayValue |-> calculate_display_value(row)]

(***************************************************************************)
(* Profit rows, lines 199-222.                                             *)
(***************************************************************************)
BAS == StrV(<<"B", "A", "S">>)

\* line 201, with the variant that aggregates every row
balance_filter_all(rows) == rows
balance_filter(rows) == SelectSeq(rows, LAMBDA r : r.Code0 = BAS)

\* order of text (code points) and of group keys, as groupby(sort=True) orders them
AsciiOrder == <<" ", "+", "-", ".">> \o Digits \o UpperChars \o <<"_">> \o LowerChars
RECURSIVE StrLess(_, _)
StrLess(a, b) ==
    IF b = <<>> THEN FALSE
    ELSE IF a = <<>> THEN TRUE
    ELSE IF Head(a) # Head(b) THEN IndexOf(AsciiOrder, Head(a)) < IndexOf(AsciiOrder, Head(b))
    ELSE StrLess(Tail(a), Tail(b))
DateLess(a, b) ==
    \/ a[1] < b[1]
    \/ a[1] = b[1] /\ a[2] < b[2]
    \/ a[1] = b[1] /\ a[2] = b[2] /\ a[3] < b[3]
KeyLess(a, b) ==
    \/ StrLess(a.JaarPeriode.s, b.JaarPeriode.s)
    \/ a.JaarPeriode = b.JaarPeriode /\ DateLess(a.LastDate, b.LastDate)
    \/ a.JaarPeriode = b.JaarPeriode /\ a.LastDate = b.LastDate
         /\ StrLess(py_str(a.NaamAdministratie), py_str(b.NaamAdministratie))
RECURSIVE SortKeys(_)
SortKeys(S) ==
    IF S = {} THEN <<>>
    ELSE LET m == CHOOSE x \in S : \A y \in S \ {x} : KeyLess(x, y)
         IN  <<m>> \o SortKeys(S \ {m})

GroupKey(r) == [JaarPeriode |-> r.JaarPeriode, LastDate |-> r.LastDate,
                NaamAdministratie |-> r.NaamAdministratie]

\* line 205: .sum() of a group, with the variant that takes the first value only
SumValues_first(rows) == IF rows = <<>> THEN 0 ELSE Head(rows).Value.n
RECURSIVE SumValues(_)
SumValues(rows) == IF rows = <<>> THEN 0 ELSE Head(rows).Value.n + SumValues(Tail(rows))

\* lines 203-208: groupby(...)["Value"].sum().reset_index(); null keys are dropped
profit_per_period(balance_df) ==
    LET keyed == SelectSeq(balance_df, LAMBDA r : notna(r.NaamAdministratie))
        keys == SortKeys({GroupKey(keyed[i]) : i \in 1..Len(keyed)})
    IN  [k \in 1..Len(keys) |->
            [JaarPeriode |-> keys[k].JaarPeriode, LastDate |-> keys[k].LastDate,
             NaamAdministratie |-> keys[k].NaamAdministratie,
             Profit |-> SumValues(SelectSeq(keyed, LAMBDA r : GroupKey(r) = keys[k]))]]

\* lines 211-222, with the variant that swaps the two signs
profit_row_swapped(g) ==
    [CodeGrootboekrekening |-> StrV(<<"9", "9", "9", "9">>),
     NaamAdministratie |-> g.NaamAdministratie,
     CodeRelatiekostenplaats |-> NoneV, NaamRelatiekostenplaats |-> NoneV,
     Code0 |-> BAS, Code1 |-> StrV(<<"0", "6", "0">>),
     Value |-> NumV(g.Profit), JaarPeriode |-> g.JaarPeriode, LastDate |-> g.LastDate,
     DisplayValue |-> NumV(g.Profit * (0 - 1))]
profit_row(g) ==
    [CodeGrootboekrekening |-> StrV(<<"9", "9", "9", "9">>),
     NaamAdministratie |-> g.NaamAdministratie,
     CodeRelatiekostenplaats |-> NoneV, NaamRelatiekostenplaats |-> NoneV,
     Code0 |-> BAS, Code1 |-> StrV(<<"0", "6", "0">>),
     Value |-> NumV(g.Profit * (0 - 1)), JaarPeriode |-> g.JaarPeriode, LastDate |-> g.LastDate,
     DisplayValue |-> NumV(g.Profit)]

make_profit_rows(fact) ==
    LET ppp == profit_per_period(balance_filter(fact))
    IN  [k \in 1..Len(ppp) |-> profit_row(ppp[k])]

(***************************************************************************)
(* Finalisation (lines 226-237) and the write (utils.write_to_duckdb).     *)
(***************************************************************************)
\* utils.apply_schema with TRIAL_BALANCES_SCHEMA, one row
apply_schema_row(row) ==
    [CodeGrootboekrekening |-> StrV(astype_str(row.CodeGrootboekrekening)),
     NaamAdministratie |-> StrV(astype_str(row.NaamAdministratie)),
     CodeRelatiekostenplaats |-> to_numeric_coerce(row.CodeRelatiekostenplaats),
     NaamRelatiekostenplaats |-> StrV(astype_str(row.NaamRelatiekostenplaats)),
     Value |-> to_numeric_coerce(row.Value),
     JaarPeriode |-> StrV(astype_str(row.JaarPeriode)),
     LastDate |-> row.LastDate,
     DisplayValue |-> to_numeric_coerce(row.DisplayValue)]

\* lines 227-237: concat, drop Code0/Code1, pad the account code, apply the schema
finalize_row(row) ==
    apply_schema_row(
        [CodeGrootboekrekening |-> StrV(pad_account_code(row.CodeGrootboekrekening)),
         NaamAdministratie |-> row.NaamAdministratie,
         CodeRelatiekostenplaats |-> row.CodeRelatiekostenplaats,
         NaamRelatiekostenplaats |-> row.NaamRelatiekostenplaats,
         Value |-> row.Value, JaarPeriode |-> row.JaarPeriode, LastDate |-> row.LastDate,
         DisplayValue |-> row.DisplayValue])
finalize(fact, profit) ==
    LET combined_df == fact \o profit
    IN  [i \in 1..Len(combined_df) |-> finalize_row(combined_df[i])]

\* the dtype of the melted Value column: pd.read_excel reads a column of whole
\* numbers without blanks as int64 and one with blanks as float64, and melt
\* keeps int64 only when every value column is int64; without a value column
\* (value_vars=[]) melt builds Value from an empty float64 array
value_dtype(cols, rows, pcs) ==
    IF pcs = <<>>
           \/ \E r \in 1..Len(rows), k \in 1..Len(pcs) : ~notna(CellOf(cols, rows[r], pcs[k].col))
    THEN "float64" ELSE "int64"
\* the dtype of DisplayValue after line 237: float64 once a value is a float or missing
display_dtype(vd, combined) ==
    IF vd = "float64" \/ \E i \in 1..Len(combined) : ~notna(combined[i].DisplayValue)
    THEN "float64" ELSE "int64"
\* utils.validate_schema(final_df, TRIAL_BALANCES_SCHEMA), lines 189-221: the
\* columns whose dtype is not the declared one
validate_schema(vd, dd) ==
    (IF vd # "float64" THEN {"Type mismatch for 'Value'"} ELSE {})
        \cup (IF dd # "float64" THEN {"Type mismatch for 'DisplayValue'"} ELSE {})
\* lines 244-245
schema_warnings(cols, rows, pcs, combined) ==
    LET issues == validate_schema(value_dtype(cols, rows, pcs),
                                  display_dtype(value_dtype(cols, rows, pcs), combined))
    IN  IF issues = {} THEN {} ELSE issues \cup {"Schema validation found issues, but continuing..."}

(***************************************************************************)
(* The workbooks that are loaded.                                          *)
(***************************************************************************)
H_OPENING_2025 == <<"O", "p", "e", "n", "i", "n", "g", "s", "b", "a", "l", "a", "n", "s", "2", "0", "2", "5">>
H_JANUARI_2025 == <<"j", "a", "n", "u", "a", "r", "i", "2", "0", "2", "5">>
H_JANUARI_UPPER == <<"J", "A", "N", "U", "A", "R", "I", "2", "0", "2", "5">>
H_NOTES == <<"N", "o", "t", "e", "s">>
H_MEI == <<"m", "e", "i">>

Ident(acct, ent, cc, ccn, dim, grp) ==
    [acct |-> acct, ent |-> ent, cc |-> cc, ccn |-> ccn, dim |-> dim, grp |-> grp]
\* identity tuples: the four categories, an unknown group code, a missing one
IdPool == {
    Ident(StrV(<<"1", "0", "0">>), StrV(<<"A">>), NullV, NullV, BAS, NumV(10)),
    Ident(NumV(1000), StrV(<<"A">>), NumV(1), StrV(<<"K">>), BAS, NumV(60)),
    Ident(StrV(<<"8", "0", "0", "0">>), StrV(<<"B">>), NullV, NullV, StrV(<<"P", "N", "L">>), NumV(500)),
    Ident(StrV(<<"4", "0", "0", "0">>), StrV(<<"B">>), NullV, NullV, BAS, NumV(520)),
    Ident(StrV(<<"1", "0">>), StrV(<<"A">>), NullV, NullV, StrV(<<"P", "N", "L">>), NullV),
    Ident(StrV(<<"4", "1", "0", "0">>), StrV(<<"B">>), NullV, NullV, BAS, NumV(5200)) }
\* a group code that is text: "010" converts, "x" makes int() raise
IdPoolText == {
    Ident(StrV(<<"1", "0", "0">>), StrV(<<"A">>), NullV, NullV, BAS, StrV(<<"0", "1", "0">>)),
    Ident(StrV(<<"2", "0", "0">>), StrV(<<"A">>), NullV, NullV, BAS, StrV(<<"x">>)) }

\* account "100" of the balance sheet, group 10; a liability account of entity B
IdScenario == Ident(StrV(<<"1", "0", "0">>), StrV(<<"A">>), NullV, NullV, BAS, NumV(10))
IdLiability == Ident(StrV(<<"1", "6", "0", "0">>), StrV(<<"B">>), NullV, NullV, BAS, NumV(70))
IdFew == {IdScenario, IdLiability}

\* a workbook shape: its columns, the identity tuples and the cells of the
\* other columns (in column order) its rows are drawn from
Shape(cols, ids, vals) == [cols |-> cols, ids |-> ids, vals |-> vals]
Workbooks == {
    Shape(id_columns \o <<H_OPENING_2025, H_JANUARI_2025>>, IdPool,
          { <<NumV(5), NumV(7)>>, <<NumV(0 - 5), NullV>>, <<NullV, NullV>> }),
    Shape(id_columns \o <<H_NOTES, H_JANUARI_UPPER>>, IdFew,
          { <<NullV, NumV(5)>>, <<StrV(<<"x">>), NullV>> }),
    Shape(id_columns \o <<H_JANUARI_2025>>, IdPoolText, { <<NumV(5)>>, <<NullV>> }),
    Shape(id_columns, IdFew, { <<>> }),
    Shape(id_columns \o <<H_JANUARI_2025, H_MEI>>, IdFew, { <<NumV(5), NullV>> }),
    Shape(<<COL_ACCOUNT, COL_ENTITY, COL_DIMTYPE, COL_GROUP1, H_JANUARI_2025>>, IdFew,
          { <<NumV(5)>>, <<NullV>> }),
    Shape(<<COL_ACCOUNT, COL_ENTITY, COL_CC_CODE, COL_CC_NAME, COL_GROUP1, H_MEI, H_JANUARI_2025>>,
          IdFew, { <<NullV, NumV(5)>> }),
    Shape(id_columns \o <<H_OPENING_2025, H_JANUARI_2025>>, {IdScenario},
          { <<NumV(500), NumV(600)>> }),
    Shape(id_columns \o <<H_JANUARI_2025, H_JANUARI_UPPER>>, IdFew,
          { <<NumV(5), NumV(7)>> }) }

NonIdColumns(cols) == SelectSeq(cols, LAMBDA c : ~InSeq(id_columns, c))
MakeRow(cols, id, v) ==
    [i \in 1..Len(cols) |->
        CASE cols[i] = COL_ACCOUNT -> id.acct
          [] cols[i] = COL_ENTITY -> id.ent
          [] cols[i] = COL_CC_CODE -> id.cc
          [] cols[i] = COL_CC_NAME -> id.ccn
          [] cols[i] = COL_DIMTYPE -> id.dim
          [] cols[i] = COL_GROUP1 -> id.grp
          [] OTHER -> v[IndexOf(NonIdColumns(cols), cols[i])]]
RowsOf(w) == {MakeRow(w.cols, id, v) : id \in w.ids, v \in w.vals}
TablesOf(w) == UNION {[1..n -> RowsOf(w)] : n \in 0..MaxRows}

\* a table left in the database by an earlier run
OldStore == [exists |-> TRUE,
             rows |-> << [CodeGrootboekrekening |-> StrV(<<"0", "0", "0", "1">>),
                          NaamAdministratie |-> StrV(<<"Z">>),
                          CodeRelatiekostenplaats |-> NullV,
                          NaamRelatiekostenplaats |-> StrV(<<"n", "a", "n">>),
                          Value |-> NumV(1), JaarPeriode |-> StrV(<<"2", "0", "2", "4", "-", "1", "2">>),
                          LastDate |-> <<2024, 12, 31>>, DisplayValue |-> NumV(1)] >>]

(***************************************************************************)
(* Spec: one run of transform_trial_balances.                              *)
(***************************************************************************)
Raised(type, what, missing) == [type |-> type, what |-> what, missing |-> missing]

Init ==
    /\ pc = "start"
    /\ columns = <<>> /\ df = <<>> /\ period_columns = <<>>
    /\ fact_df = <<>> /\ profit_rows = <<>> /\ final_df = <<>>
    /\ store \in {NoStore, OldStore}
    /\ store_before = store
    /\ error = NoError
    /\ warnings = {} /\ exit_status = <<>> /\ stderr = <<>> /\ run = 1
    /\ prog = "transform_trial_balances"
    /\ PadIdle /\ ParseIdle /\ SchemaIdle /\ WriteIdle /\ ValidateIdle /\ CombineIdle /\ DumpIdle /\ open_cons = 0

\* line 136: pd.read_excel
ReadExcel ==
    /\ pc = "start" /\ run = 1
    /\ \E w \in Workbooks : \E rows \in TablesOf(w) :
          /\ columns' = w.cols
          /\ df' = rows
    /\ pc' = "loaded"
    /\ UNCHANGED <<period_columns, fact_df, profit_rows, final_df, store, error, store_before, warnings, runVars, nonPipeVars>>

ReadExcelFails ==
    /\ pc = "start"
    /\ pc' = "failed"
    /\ error' = Raised("FileNotFoundError", "read_excel", <<>>)
    /\ UNCHANGED <<columns, df, period_columns, fact_df, profit_rows, final_df, store, store_before, warnings, runVars, nonPipeVars>>

\* line 136, in a run repeated on the same file
ReadExcelAgain ==
    /\ pc = "start" /\ run = 2
    /\ pc' = "loaded"
    /\ UNCHANGED <<pipeVars, warnings, runVars, nonPipeVars>>

\* lines 139-146
IdentifyPeriodColumns ==
    /\ pc = "loaded"
    /\ IF RaisingColumns(columns) # {}
       THEN /\ pc' = "failed"
            /\ error' = Raised("ValueError", "parse_period_column", <<>>)
            /\ UNCHANGED period_columns
       ELSE /\ pc' = "identified"
            /\ period_columns' = identify_period_columns(columns)
            /\ UNCHANGED error
    /\ UNCHANGED <<columns, df, fact_df, profit_rows, final_df, store, store_before, warnings, runVars, nonPipeVars>>

\* lines 158-161
VerifyIdColumns ==
    /\ pc = "identified"
    /\ IF missing_cols(columns) # <<>>
       THEN /\ pc' = "failed"
            /\ error' = Raised("ValueError", "Missing required columns", missing_cols(columns))
       ELSE /\ pc' = "verified"
            /\ UNCHANGED error
    /\ UNCHANGED <<columns, df, period_columns, fact_df, profit_rows, final_df, store, store_before, warnings, runVars, nonPipeVars>>

\* lines 163-193
Unpivot ==
    /\ pc = "verified"
    /\ IF unpivot_raises(columns, df, period_columns)
       THEN /\ pc' = "failed"
            /\ error' = Raised("ValueError", "int(Code1)", <<>>)
            /\ UNCHANGED fact_df
       ELSE /\ pc' = "unpivoted"
            /\ fact_df' = unpivot(columns, df, period_columns)
            /\ UNCHANGED error
    /\ UNCHANGED <<columns, df, period_columns, profit_rows, final_df, store, store_before, warnings, runVars, nonPipeVars>>

\* lines 195-197.  On an empty frame the outcome depends on the pandas that is
\* installed (the repository pins none): before 1.5 apply returns a frame and
\* the assignment raises ValueError; from 1.5 on apply returns an empty Series
\* and the run goes on with an empty DisplayValue column.
AddDisplayValue ==
    /\ pc = "unpivoted"
    /\ \/ /\ fact_df = <<>>
          /\ pc' = "failed"
          /\ error' = Raised("ValueError", "DisplayValue of an empty frame", <<>>)
          /\ UNCHANGED fact_df
       \/ /\ pc' = "display"
          /\ fact_df' = [i \in 1..Len(fact_df) |-> with_display(fact_df[i])]
          /\ UNCHANGED error
    /\ UNCHANGED <<columns, df, period_columns, profit_rows, final_df, store, store_before, warnings, runVars, nonPipeVars>>

\* lines 199-224
ProfitRows ==
    /\ pc = "display"
    /\ profit_rows' = make_profit_rows(fact_df)
    /\ pc' = "profit"
    /\ UNCHANGED <<columns, df, period_columns, fact_df, final_df, store, error, store_before, warnings, runVars, nonPipeVars>>

\* lines 226-245
Finalize ==
    /\ pc = "profit"
    /\ final_df' = finalize(fact_df, profit_rows)
    /\ warnings' = schema_warnings(columns, df, period_columns, fact_df \o profit_rows)
    /\ pc' = "final"
    /\ UNCHANGED <<columns, df, period_columns, fact_df, profit_rows, store, error, store_before, runVars, nonPipeVars>>

\* the variant that inserts into the table it finds
WriteToDuckdbAppend ==
    /\ pc = "final"
    /\ store' = [exists |-> TRUE, rows |-> store.rows \o final_df]
    /\ pc' = "written"
    /\ UNCHANGED <<columns, df, period_columns, fact_df, profit_rows, final_df, error, store_before, warnings, runVars, nonPipeVars>>

\* lines 247-255 and utils.write_to_duckdb in mode "replace"
WriteToDuckdb ==
    /\ pc = "final"
    /\ store' = [exists |-> TRUE, rows |-> final_df]
    /\ pc' = "written"
    /\ UNCHANGED <<columns, df, period_columns, fact_df, profit_rows, final_df, error, store_before, warnings, runVars, nonPipeVars>>

\* duckdb.connect raises: nothing was executed
WriteFailsAtConnect ==
    /\ pc = "final"
    /\ pc' = "failed"
    /\ error' = Raised("Exception", "duckdb.connect", <<>>)
    /\ UNCHANGED <<columns, df, period_columns, fact_df, profit_rows, final_df, store, store_before, warnings, runVars, nonPipeVars>>

\* the variant in which the failing CREATE TABLE leaves the rows it had copied
WriteFailsPartial ==
    /\ pc = "final"
    /\ pc' = "failed"
    /\ store' = [exists |-> TRUE, rows |-> SubSeq(final_df, 1, IF final_df = <<>> THEN 0 ELSE 1)]
    /\ error' = Raised("Exception", "CREATE TABLE", <<>>)
    /\ UNCHANGED <<columns, df, period_columns, fact_df, profit_rows, final_df, store_before, warnings, runVars, nonPipeVars>>

\* CREATE TABLE raises after DROP TABLE IF EXISTS was executed
WriteFailsAtCreate ==
    /\ pc = "final"
    /\ pc' = "failed"
    /\ store' = NoStore
    /\ error' = Raised("Exception", "CREATE TABLE", <<>>)
    /\ UNCHANGED <<columns, df, period_columns, fact_df, profit_rows, final_df, store_before, warnings, runVars, nonPipeVars>>

\* lines 257-265
ShowSample ==
    /\ pc = "written"
    /\ pc' = "done"
    /\ UNCHANGED <<pipeVars, warnings, runVars, nonPipeVars>>

\* lines 259-263, after the write: duckdb.connect raises (line 259), or the
\* query or a print raises (lines 260-262) and con.close() of line 263 is not
\* reached, there being no try/finally: the connection stays open
ShowSampleFails ==
    /\ pc = "written"
    /\ pc' = "failed"
    /\ \/ /\ error' = Raised("Exception", "sample query", <<>>)
          /\ UNCHANGED open_cons
       \/ /\ error' = Raised("Exception", "sample query, connected", <<>>)
          /\ open_cons' = open_cons + 1
    /\ UNCHANGED <<columns, df, period_columns, fact_df, profit_rows, final_df, store, store_before,
                   warnings, runVars, padVars, parseVars, schemaVars, writeVars, validateVars,
                   combineVars, dumpVars>>

\* main returning 0 whatever happened
MainReturnZero ==
    /\ exit_status = <<>>
    /\ pc \in {"done", "failed"} /\ exit_status' = <<0>> /\ UNCHANGED stderr
    /\ UNCHANGED <<pc, pipeVars, warnings, run, prog, nonPipeVars>>

\* main, lines 272-279: return 0, or print the error and return 1
MainReturn ==
    /\ exit_status = <<>>
    /\ \/ pc = "done" /\ exit_status' = <<0>> /\ UNCHANGED stderr
       \/ pc = "failed" /\ exit_status' = <<1>> /\ stderr' = <<error>>
    /\ UNCHANGED <<pc, pipeVars, warnings, run, prog, nonPipeVars>>

\* the program is started again on the same workbook and the same database
RunAgain ==
    /\ pc = "done" /\ exit_status = <<0>> /\ run = 1
    /\ pc' = "start" /\ run' = 2
    /\ exit_status' = <<>> /\ warnings' = {}
    /\ period_columns' = <<>> /\ fact_df' = <<>> /\ profit_rows' = <<>> /\ final_df' = <<>>
    /\ store_before' = store
    /\ UNCHANGED <<columns, df, store, error, stderr, prog, nonPipeVars>>

Next ==
    \/ ReadExcel \/ ReadExcelFails
    \/ IdentifyPeriodColumns \/ VerifyIdColumns \/ Unpivot
    \/ AddDisplayValue \/ ProfitRows \/ Finalize
    \/ WriteToDuckdb \/ WriteFailsAtConnect \/ WriteFailsAtCreate
    \/ ShowSample \/ ShowSampleFails
    \/ MainReturn

Spec == Init /\ [][Next]_vars

\* SpecTwice: the pipeline run, and run once more on the same workbook
NextTwice == Next \/ RunAgain \/ ReadExcelAgain

SpecTwice == Init /\ [][NextTwice]_vars

(***************************************************************************)
(* SpecCombine: combine_databases.main.  A database file holds tables; a   *)
(* table is its rows in order.  The rows are opaque to the copy, so a row  *)
(* is a number that identifies it.                                         *)
(***************************************************************************)
Tbl(rows) == [exists |-> TRUE, rows |-> rows]
TransactionRows(n) == [i \in 1..n |-> i]
TrialBalanceRows(n) == [i \in 1..n |-> 10 + i]
\* what the file transactions_db can be when the program starts
TransactionsDbs ==
    {NoFile, [file |-> TRUE, table |-> NoTbl]}
        \cup {[file |-> TRUE, table |-> Tbl(TransactionRows(n))] : n \in 0..MaxRows}
\* what the file trial_balances_db can be when the program starts
TrialBalancesDbs ==
    {NoFile, [file |-> TRUE, table |-> NoTbl]}
        \cup {[file |-> TRUE, table |-> Tbl(TrialBalanceRows(n))] : n \in 0..MaxRows}
\* the output of an earlier run of combine_databases
OldOutput == [file |-> TRUE, transactions |-> Tbl(<<91>>), fct_TrialBalances |-> Tbl(<<92, 93>>)]
OutputDbs == {NoOutput, OldOutput}

InitCombine ==
    /\ pc = "c_start"
    /\ prog = "combine_databases"
    /\ src1 \in TransactionsDbs
    /\ src2 \in TrialBalancesDbs
    /\ out_db \in OutputDbs
    /\ attached = {} /\ sql_log = <<>>
    /\ transaction_count = <<>> /\ trial_balance_count = <<>>
    /\ open_cons = 0
    /\ columns = <<>> /\ df = <<>> /\ period_columns = <<>>
    /\ fact_df = <<>> /\ profit_rows = <<>> /\ final_df = <<>>
    /\ store = NoStore /\ store_before = NoStore /\ error = NoError
    /\ warnings = {} /\ exit_status = <<>> /\ stderr = <<>> /\ run = 1
    /\ PadIdle /\ ParseIdle /\ SchemaIdle /\ WriteIdle /\ ValidateIdle /\ DumpIdle

combineKeeps == <<columns, df, period_columns, fact_df, profit_rows, final_df, store,
                  store_before, warnings, runVars, padVars, parseVars, schemaVars, writeVars, validateVars, dumpVars>>

\* lines 62-65: mkdir, then duckdb.connect opens the output file, creating it
\* when it is missing
CombineConnect ==
    /\ pc = "c_start"
    /\ open_cons' = open_cons + 1
    /\ out_db' = [out_db EXCEPT !.file = TRUE]
    /\ pc' = "c_connected"
    /\ UNCHANGED <<src1, src2, attached, sql_log, transaction_count, trial_balance_count,
                   error, combineKeeps>>

\* line 65: duckdb.connect raises; no connection was opened
CombineConnectFails ==
    /\ pc = "c_start"
    /\ error' = Raised("Exception", "duckdb.connect", <<>>)
    /\ pc' = "failed"
    /\ UNCHANGED <<combineVars, open_cons, combineKeeps>>

\* line 69: ATTACH opens the file, creating an empty database when it is missing
CombineAttach1 ==
    /\ pc = "c_connected"
    /\ src1' = [src1 EXCEPT !.file = TRUE]
    /\ attached' = attached \cup {"source1"}
    /\ sql_log' = Append(sql_log, "ATTACH source1")
    /\ pc' = "c_attached1"
    /\ UNCHANGED <<src2, out_db, transaction_count, trial_balance_count, open_cons,
                   error, combineKeeps>>

\* line 70: CREATE TABLE transactions AS SELECT * FROM source1.transactions.
\* The statement raises when the source has no such table and when the output
\* already has one; the exception leaves combine_databases at once.
CombineCopyTransactions ==
    /\ pc = "c_attached1"
    /\ sql_log' = Append(sql_log, "CREATE TABLE transactions")
    /\ IF ~src1.table.exists
       THEN /\ error' = Raised("CatalogException", "source1.transactions does not exist", <<>>)
            /\ pc' = "failed"
            /\ UNCHANGED out_db
       ELSE IF out_db.transactions.exists
       THEN /\ error' = Raised("CatalogException", "transactions already exists", <<>>)
            /\ pc' = "failed"
            /\ UNCHANGED out_db
       ELSE /\ out_db' = [out_db EXCEPT !.transactions = Tbl(src1.table.rows)]
            /\ pc' = "c_copied1"
            /\ UNCHANGED error
    /\ UNCHANGED <<src1, src2, attached, transaction_count, trial_balance_count, open_cons,
                   combineKeeps>>

\* line 71
CombineDetach1 ==
    /\ pc = "c_copied1"
    /\ attached' = attached \ {"source1"}
    /\ sql_log' = Append(sql_log, "DETACH source1")
    /\ pc' = "c_detached1"
    /\ UNCHANGED <<src1, src2, out_db, transaction_count, trial_balance_count, open_cons,
                   error, combineKeeps>>

\* line 72: SELECT COUNT(*) FROM transactions, the table of the output
CombineCountTransactions ==
    /\ pc = "c_detached1"
    /\ transaction_count' = <<Len(out_db.transactions.rows)>>
    /\ sql_log' = Append(sql_log, "SELECT COUNT(*) FROM transactions")
    /\ pc' = "c_counted1"
    /\ UNCHANGED <<src1, src2, out_db, attached, trial_balance_count, open_cons,
                   error, combineKeeps>>

\* line 77
CombineAttach2 ==
    /\ pc = "c_counted1"
    /\ src2' = [src2 EXCEPT !.file = TRUE]
    /\ attached' = attached \cup {"source2"}
    /\ sql_log' = Append(sql_log, "ATTACH source2")
    /\ pc' = "c_attached2"
    /\ UNCHANGED <<src1, out_db, transaction_count, trial_balance_count, open_cons,
                   error, combineKeeps>>

\* line 78: CREATE TABLE fct_TrialBalances AS SELECT * FROM source2.fct_TrialBalances
CombineCopyTrialBalances ==
    /\ pc = "c_attached2"
    /\ sql_log' = Append(sql_log, "CREATE TABLE fct_TrialBalances")
    /\ IF ~src2.table.exists
       THEN /\ error' = Raised("CatalogException", "source2.fct_TrialBalances does not exist", <<>>)
            /\ pc' = "failed"
            /\ UNCHANGED out_db
       ELSE IF out_db.fct_TrialBalances.exists
       THEN /\ error' = Raised("CatalogException", "fct_TrialBalances already exists", <<>>)
            /\ pc' = "failed"
            /\ UNCHANGED out_db
       ELSE /\ out_db' = [out_db EXCEPT !.fct_TrialBalances = Tbl(src2.table.rows)]
            /\ pc' = "c_copied2"
            /\ UNCHANGED error
    /\ UNCHANGED <<src1, src2, attached, transaction_count, trial_balance_count, open_cons,
                   combineKeeps>>

\* line 79
CombineDetach2 ==
    /\ pc = "c_copied2"
    /\ attached' = attached \ {"source2"}
    /\ sql_log' = Append(sql_log, "DETACH source2")
    /\ pc' = "c_detached2"
    /\ UNCHANGED <<src1, src2, out_db, transaction_count, trial_balance_count, open_cons,
                   error, combineKeeps>>

\* line 80: SELECT COUNT(*) FROM fct_TrialBalances, the table of the output
CombineCountTrialBalances ==
    /\ pc = "c_detached2"
    /\ trial_balance_count' = <<Len(out_db.fct_TrialBalances.rows)>>
    /\ sql_log' = Append(sql_log, "SELECT COUNT(*) FROM fct_TrialBalances")
    /\ pc' = "c_counted2"
    /\ UNCHANGED <<src1, src2, out_db, attached, transaction_count, open_cons,
                   error, combineKeeps>>

\* lines 84-89: con.close(), then the totals are printed
CombineClose ==
    /\ pc = "c_counted2"
    /\ open_cons' = open_cons - 1
    /\ pc' = "done"
    /\ UNCHANGED <<combineVars, error, combineKeeps>>

NextCombine ==
    \/ CombineConnect \/ CombineConnectFails
    \/ CombineAttach1 \/ CombineCopyTransactions \/ CombineDetach1 \/ CombineCountTransactions
    \/ CombineAttach2 \/ CombineCopyTrialBalances \/ CombineDetach2 \/ CombineCountTrialBalances
    \/ CombineClose
    \/ MainReturn

SpecCombine == InitCombine /\ [][NextCombine]_vars

(***************************************************************************)
(* SpecDump: process_dump.main.  df is a table of named, typed columns.    *)
(***************************************************************************)
COLUMNS_TO_DROP ==
    <<"Btwbedrag", "Boekingsstatus", "CodeAdministratie", "Code2", "Debet", "Credit",
      "Btwcode", "Nummer">>
TRANSACTIONS_SCHEMA ==
    <<Entry("NaamAdministratie", "str"), Entry("CodeGrootboekrekening", "str"),
      Entry("NaamGrootboekrekening", "str"), Entry("Code", "str"),
      Entry("Boekingsnummer", "Int64"), Entry("Boekdatum", "datetime64[ns]"),
      Entry("Periode", "str"), Entry("Code1", "str"), Entry("Omschrijving", "str"),
      Entry("Saldo", "float64"), Entry("Factuurnummer", "str")>>

MsPerDay == 86400000
DaysInMonth1970 == <<31, 28, 31, 30, 31, 30, 31, 31, 30, 31, 30, 31>>
TwoDigits(n) == IF n < 10 THEN <<"0">> \o NatToStr(n) ELSE NatToStr(n)
RECURSIVE MonthDay(_, _)
\* the date of 1970 that is d days (from 0) after the first of month m
MonthDay(m, d) ==
    IF d < DaysInMonth1970[m]
    THEN <<"1", "9", "7", "0", "-">> \o TwoDigits(m) \o <<"-">> \o TwoDigits(d + 1)
    ELSE MonthDay(m + 1, d - DaysInMonth1970[m])
\* pd.to_datetime(x, unit="ms") of one element: midnights of 1970
ms_to_datetime_raises(x) == x.t \in {"str", "none"}
ms_to_datetime(x) ==
    CASE x.t = "num" -> DateV(MonthDay(1, x.n \div MsPerDay))
      [] x.t = "date" -> x
      [] OTHER -> NullV

RECURSIVE Without(_, _)
\* the sequence without the elements of drop
Without(seq, drop) ==
    IF seq = <<>> THEN <<>>
    ELSE IF InSeq(drop, Head(seq)) THEN Without(Tail(seq), drop)
    ELSE <<Head(seq)>> \o Without(Tail(seq), drop)
\* df.drop(columns=drop), every name of drop being a column
drop_columns(t, drop) ==
    LET kept == Without(t.cols, drop)
    IN  [cols |-> kept, data |-> [i \in 1..Len(kept) |-> t.data[Position(t.cols, kept[i])]]]
\* df[name] = column
set_column(t, name, column) == [t EXCEPT !.data[Position(t.cols, name)] = column]
get_column(t, name) == t.data[Position(t.cols, name)]
\* pad_account_code(series)
pad_account_code_column(c) ==
    Column("object", [i \in 1..Len(c.cells) |-> StrV(pad_account_code(c.cells[i]))])

\* the dumps that are loaded: the columns in order, and what their cells can be
OnePool(dtype, cell) == [dtype |-> dtype, cells |-> {cell}]
DumpCodePool == [dtype |-> "int64", cells |-> {NumV(100), NumV(1000)}]
DumpDatePool == [dtype |-> "int64", cells |-> {NumV(0), NumV(MsPerDay * 2)}]
DumpBadDatePool == [dtype |-> "object", cells |-> {StrV(<<"x">>)}]
DumpSaldoPool == [dtype |-> "float64", cells |-> {FloatV(15), NullV}]
DumpSaldoTextPool == [dtype |-> "object", cells |-> {StrV(<<"1", "2">>), StrV(<<"x">>)}]
DumpNumberPool == [dtype |-> "float64", cells |-> {FloatV(15), FloatV(30)}]
DroppedPools == [i \in 1..Len(COLUMNS_TO_DROP) |-> OnePool("float64", NullV)]
DumpShape(cols, pools) == [cols |-> cols, pools |-> pools]
DumpShapes == {
    \* every column of the schema
    DumpShape(COLUMNS_TO_DROP \o
              <<"NaamAdministratie", "CodeGrootboekrekening", "NaamGrootboekrekening", "Code",
                "Boekingsnummer", "Boekdatum", "Periode", "Code1", "Omschrijving", "Saldo",
                "Factuurnummer">>,
              DroppedPools \o
              <<OnePool("object", StrV(<<"A">>)), DumpCodePool, OnePool("object", StrV(<<"K", "a", "s">>)),
                OnePool("object", StrV(<<"K">>)), OnePool("int64", NumV(7)), DumpDatePool,
                OnePool("int64", NumV(1)), OnePool("object", NullV),
                OnePool("object", StrV(<<"x">>)), DumpSaldoPool, OnePool("object", NullV)>>),
    \* columns of the schema absent, amounts as text
    DumpShape(COLUMNS_TO_DROP \o <<"CodeGrootboekrekening", "Boekdatum", "Saldo">>,
              DroppedPools \o <<DumpCodePool, DumpDatePool, DumpSaldoTextPool>>),
    \* a booking number that is not whole
    DumpShape(COLUMNS_TO_DROP \o <<"CodeGrootboekrekening", "Boekdatum", "Boekingsnummer">>,
              DroppedPools \o <<DumpCodePool, DumpDatePool, DumpNumberPool>>),
    \* a column to drop is absent
    DumpShape(<<"Btwbedrag", "CodeGrootboekrekening", "Boekdatum", "Saldo">>,
              <<OnePool("float64", NullV), DumpCodePool, DumpDatePool, DumpSaldoPool>>),
    \* no Boekdatum
    DumpShape(COLUMNS_TO_DROP \o <<"CodeGrootboekrekening", "Saldo">>,
              DroppedPools \o <<DumpCodePool, DumpSaldoPool>>),
    \* Boekdatum is text
    DumpShape(COLUMNS_TO_DROP \o <<"CodeGrootboekrekening", "Boekdatum">>,
              DroppedPools \o <<DumpCodePool, DumpBadDatePool>>),
    \* no CodeGrootboekrekening
    DumpShape(COLUMNS_TO_DROP \o <<"Boekdatum", "Saldo">>,
              DroppedPools \o <<DumpDatePool, DumpSaldoPool>>) }
RECURSIVE ColumnsOfPools(_, _)
ColumnsOfPools(pools, n) ==
    IF pools = <<>> THEN {<<>>}
    ELSE {<<Column(Head(pools).dtype, a)>> \o rest :
              a \in [1..n -> Head(pools).cells], rest \in ColumnsOfPools(Tail(pools), n)}
DumpsOfShape(s) ==
    UNION {{[cols |-> s.cols, data |-> d] : d \in ColumnsOfPools(s.pools, n)} : n \in 1..MaxRows}
\* the table transactions left by an earlier run
OldDumpStore ==
    [exists |-> TRUE,
     table |-> [cols |-> <<"Saldo">>, data |-> <<Column("float64", <<FloatV(990)>>)>>]]

InitDump ==
    /\ pc = "d_start"
    /\ prog = "process_dump"
    /\ dump_df = NoTable
    /\ dump_store \in {NoDumpStore, OldDumpStore}
    /\ open_cons = 0
    /\ columns = <<>> /\ df = <<>> /\ period_columns = <<>>
    /\ fact_df = <<>> /\ profit_rows = <<>> /\ final_df = <<>>
    /\ store = NoStore /\ store_before = NoStore /\ error = NoError
    /\ warnings = {} /\ exit_status = <<>> /\ stderr = <<>> /\ run = 1
    /\ PadIdle /\ ParseIdle /\ SchemaIdle /\ WriteIdle /\ ValidateIdle /\ CombineIdle

dumpKeeps == <<columns, df, period_columns, fact_df, profit_rows, final_df, store,
               store_before, runVars, padVars, parseVars, schemaVars, writeVars, validateVars, combineVars>>

\* line 100: pd.read_excel
DumpReadExcel ==
    /\ pc = "d_start"
    /\ \E s \in DumpShapes : dump_df' \in DumpsOfShape(s)
    /\ pc' = "d_loaded"
    /\ UNCHANGED <<dump_store, open_cons, warnings, error, dumpKeeps>>

\* line 100: the file is missing or unreadable
DumpReadExcelFails ==
    /\ pc = "d_start"
    /\ error' = Raised("FileNotFoundError", "pd.read_excel", <<>>)
    /\ pc' = "failed"
    /\ UNCHANGED <<dumpVars, open_cons, warnings, dumpKeeps>>

\* line 105: df.drop(columns=COLUMNS_TO_DROP) raises KeyError when one is absent
DumpDropColumns ==
    /\ pc = "d_loaded"
    /\ IF \E i \in 1..Len(COLUMNS_TO_DROP) : ~InSeq(dump_df.cols, COLUMNS_TO_DROP[i])
       THEN /\ error' = Raised("KeyError", "drop", <<>>)
            /\ pc' = "failed"
            /\ UNCHANGED dump_df
       ELSE /\ dump_df' = drop_columns(dump_df, COLUMNS_TO_DROP)
            /\ pc' = "d_dropped"
            /\ UNCHANGED error
    /\ UNCHANGED <<dump_store, open_cons, warnings, dumpKeeps>>

\* line 108: pd.to_datetime(df["Boekdatum"], unit="ms")
DumpConvertDates ==
    /\ pc = "d_dropped"
    /\ IF ~InSeq(dump_df.cols, "Boekdatum")
       THEN /\ error' = Raised("KeyError", "Boekdatum", <<>>)
            /\ pc' = "failed"
            /\ UNCHANGED dump_df
       ELSE LET c == get_column(dump_df, "Boekdatum")
            IN  IF \E i \in 1..Len(c.cells) : ms_to_datetime_raises(c.cells[i])
                THEN /\ error' = Raised("ValueError", "to_datetime", <<>>)
                     /\ pc' = "failed"
                     /\ UNCHANGED dump_df
                ELSE /\ dump_df' = set_column(dump_df, "Boekdatum",
                                       Column("datetime64[ns]",
                                              [i \in 1..Len(c.cells) |-> ms_to_datetime(c.cells[i])]))
                     /\ pc' = "d_dated"
                     /\ UNCHANGED error
    /\ UNCHANGED <<dump_store, open_cons, warnings, dumpKeeps>>

\* line 111: pad_account_code(df["CodeGrootboekrekening"])
DumpPadCodes ==
    /\ pc = "d_dated"
    /\ IF ~InSeq(dump_df.cols, "CodeGrootboekrekening")
       THEN /\ error' = Raised("KeyError", "CodeGrootboekrekening", <<>>)
            /\ pc' = "failed"
            /\ UNCHANGED dump_df
       ELSE /\ dump_df' = set_column(dump_df, "CodeGrootboekrekening",
                              pad_account_code_column(get_column(dump_df, "CodeGrootboekrekening")))
            /\ pc' = "d_padded"
            /\ UNCHANGED error
    /\ UNCHANGED <<dump_store, open_cons, warnings, dumpKeeps>>

\* line 115: apply_schema(df, TRANSACTIONS_SCHEMA); its warnings are printed
DumpApplySchema ==
    /\ pc = "d_padded"
    /\ LET typed == apply_schema(dump_df, TRANSACTIONS_SCHEMA)
       IN  /\ dump_df' = [cols |-> typed.cols, data |-> typed.data]
           /\ warnings' = {typed.warnings[i] : i \in 1..Len(typed.warnings)}
    /\ pc' = "d_typed"
    /\ UNCHANGED <<dump_store, open_cons, error, dumpKeeps>>

\* lines 121-124: mkdir, duckdb.connect
DumpConnect ==
    /\ pc = "d_typed"
    /\ open_cons' = open_cons + 1
    /\ pc' = "d_connected"
    /\ UNCHANGED <<dumpVars, warnings, error, dumpKeeps>>

\* line 124: duckdb.connect raises; no connection was opened
DumpConnectFails ==
    /\ pc = "d_typed"
    /\ error' = Raised("Exception", "duckdb.connect", <<>>)
    /\ pc' = "failed"
    /\ UNCHANGED <<dumpVars, open_cons, warnings, dumpKeeps>>

\* line 125: CREATE OR REPLACE TABLE transactions AS SELECT * FROM df
DumpWrite ==
    /\ pc = "d_connected"
    /\ dump_store' = [exists |-> TRUE, table |-> dump_df]
    /\ pc' = "d_written"
    /\ UNCHANGED <<dump_df, open_cons, warnings, error, dumpKeeps>>

\* line 125: the statement raises and leaves process_dump; the statement is
\* atomic, the table is as it was
DumpWriteFails ==
    /\ pc = "d_connected"
    /\ error' = Raised("Exception", "CREATE OR REPLACE TABLE", <<>>)
    /\ pc' = "failed"
    /\ UNCHANGED <<dumpVars, open_cons, warnings, dumpKeeps>>

\* lines 126-129: con.close()
DumpClose ==
    /\ pc = "d_written"
    /\ open_cons' = open_cons - 1
    /\ pc' = "done"
    /\ UNCHANGED <<dumpVars, warnings, error, dumpKeeps>>

NextDump ==
    \/ DumpReadExcel \/ DumpReadExcelFails
    \/ DumpDropColumns \/ DumpConvertDates \/ DumpPadCodes \/ DumpApplySchema
    \/ DumpConnect \/ DumpConnectFails \/ DumpWrite \/ DumpWriteFails \/ DumpClose
    \/ MainReturn

SpecDump == InitDump /\ [][NextDump]_vars

(***************************************************************************)
(* SpecWrite: utils.write_to_duckdb called with a DataFrame (final_df), a  *)
(* mode (if_exists) and a database whose table is store.                   *)
(***************************************************************************)
WriteModes == {"replace", "append", "fail"}
\* the values of if_exists the function is called with
IfExistsValues == WriteModes \cup {"overwrite"}
WriteRow(v) == [OldStore.rows[1] EXCEPT !.Value = NumV(v), !.DisplayValue = NumV(v)]
WriteRowPool == {WriteRow(2), WriteRow(3)}
\* the DataFrames written: no row, or rows of the pool
WriteFrames == UNION {[1..n -> WriteRowPool] : n \in 0..MaxRows}
\* the table before the call: absent, empty, or left by an earlier run
WriteStores == {NoStore, [exists |-> TRUE, rows |-> <<>>], OldStore}

InitWrite ==
    /\ pc = "w_start"
    /\ prog = "write_to_duckdb"
    /\ if_exists \in IfExistsValues
    /\ final_df \in WriteFrames
    /\ store \in WriteStores
    /\ store_before = store
    /\ row_count = <<>>
    /\ open_cons = 0
    /\ columns = <<>> /\ df = <<>> /\ period_columns = <<>>
    /\ fact_df = <<>> /\ profit_rows = <<>> /\ error = NoError
    /\ warnings = {} /\ exit_status = <<>> /\ stderr = <<>> /\ run = 1
    /\ PadIdle /\ ParseIdle /\ SchemaIdle /\ ValidateIdle /\ CombineIdle /\ DumpIdle

writeKeeps == <<columns, df, period_columns, fact_df, profit_rows, final_df, store_before,
                warnings, runVars, padVars, parseVars, schemaVars, validateVars, dumpVars,
                src1, src2, out_db, attached, transaction_count, trial_balance_count,
                if_exists>>

\* lines 261-262: the mode is checked first
WriteCheckMode ==
    /\ pc = "w_start"
    /\ IF if_exists \notin WriteModes
       THEN /\ error' = Raised("ValueError", "if_exists", <<>>)
            /\ pc' = "failed"
       ELSE /\ pc' = "w_checked"
            /\ UNCHANGED error
    /\ UNCHANGED <<store, open_cons, sql_log, row_count, writeKeeps>>

\* lines 265-268: mkdir, duckdb.connect
WriteConnect ==
    /\ pc = "w_checked"
    /\ sql_log' = sql_log \o <<"mkdir", "connect">>
    /\ open_cons' = open_cons + 1
    /\ pc' = "w_connected"
    /\ UNCHANGED <<store, error, row_count, writeKeeps>>

\* line 268: duckdb.connect raises, before the try block
WriteConnectRaises ==
    /\ pc = "w_checked"
    /\ sql_log' = sql_log \o <<"mkdir">>
    /\ error' = Raised("Exception", "duckdb.connect", <<>>)
    /\ pc' = "failed"
    /\ UNCHANGED <<store, open_cons, row_count, writeKeeps>>

\* lines 270-283: the statements of the mode; CREATE TABLE raises when the
\* table exists, and the finally block (line 290) closes the connection
WriteExecute ==
    /\ pc = "w_connected"
    /\ CASE if_exists = "replace" ->
              /\ sql_log' = sql_log \o <<"DROP TABLE IF EXISTS", "CREATE TABLE">>
              /\ store' = [exists |-> TRUE, rows |-> final_df]
              /\ pc' = "w_executed"
              /\ UNCHANGED <<error, open_cons>>
         [] if_exists = "append" /\ store.exists ->
              /\ sql_log' = sql_log \o <<"SHOW TABLES", "INSERT INTO">>
              /\ store' = [exists |-> TRUE, rows |-> store.rows \o final_df]
              /\ pc' = "w_executed"
              /\ UNCHANGED <<error, open_cons>>
         [] if_exists = "append" /\ ~store.exists ->
              /\ sql_log' = sql_log \o <<"SHOW TABLES", "CREATE TABLE">>
              /\ store' = [exists |-> TRUE, rows |-> final_df]
              /\ pc' = "w_executed"
              /\ UNCHANGED <<error, open_cons>>
         [] if_exists = "fail" /\ store.exists ->
              /\ sql_log' = sql_log \o <<"CREATE TABLE">>
              /\ error' = Raised("CatalogException", "table already exists", <<>>)
              /\ open_cons' = open_cons - 1
              /\ pc' = "failed"
              /\ UNCHANGED store
         [] OTHER ->
              /\ sql_log' = sql_log \o <<"CREATE TABLE">>
              /\ store' = [exists |-> TRUE, rows |-> final_df]
              /\ pc' = "w_executed"
              /\ UNCHANGED <<error, open_cons>>
    /\ UNCHANGED <<row_count, writeKeeps>>

\* lines 286-290: SELECT COUNT(*) of the table is returned; finally closes
WriteReturn ==
    /\ pc = "w_executed"
    /\ sql_log' = sql_log \o <<"SELECT COUNT(*)">>
    /\ row_count' = <<Len(store.rows)>>
    /\ open_cons' = open_cons - 1
    /\ pc' = "done"
    /\ UNCHANGED <<store, error, writeKeeps>>

NextWrite == WriteCheckMode \/ WriteConnect \/ WriteConnectRaises \/ WriteExecute \/ WriteReturn

SpecWrite == InitWrite /\ [][NextWrite]_vars

(***************************************************************************)
(* SpecValidate: validate_account_codes.validate_account_codes.  A file is *)
(* the column CodeGrootboekrekening of its sheet, when it has one.         *)
(***************************************************************************)
Sheet(cells) == [file |-> TRUE, column |-> TRUE, cells |-> cells]
SheetWithoutColumn == [file |-> TRUE, column |-> FALSE, cells |-> <<>>]
SheetCodePool == {NumV(100), NumV(1000), StrV(<<"0", "1", "0", "0">>)}
\* what a source file can be: missing, without the column, or with 0..MaxRows rows
Sheets ==
    {NoSheet, SheetWithoutColumn}
        \cup UNION {{Sheet(c) : c \in [1..n -> SheetCodePool]} : n \in 0..MaxRows}

\* lines 38-39 and 64-65: set(pad_account_code(df["CodeGrootboekrekening"]).unique())
unique_codes(cells) == {pad_account_code(cells[i]) : i \in 1..Len(cells)}
\* lines 89-93
validate_codes(transaction_codes, trial_balance_codes) ==
    [missing_codes |-> transaction_codes \ trial_balance_codes,
     extra_codes |-> trial_balance_codes \ transaction_codes,
     common_codes |-> transaction_codes \cap trial_balance_codes]

InitValidate ==
    /\ pc = "v_start"
    /\ prog = "validate_account_codes"
    /\ val_tx \in Sheets
    /\ val_tb \in Sheets
    /\ \E strict \in BOOLEAN : val_out = [NoReport EXCEPT !.strict = strict]
    /\ open_cons = 0
    /\ columns = <<>> /\ df = <<>> /\ period_columns = <<>>
    /\ fact_df = <<>> /\ profit_rows = <<>> /\ final_df = <<>>
    /\ store = NoStore /\ store_before = NoStore /\ error = NoError
    /\ warnings = {} /\ exit_status = <<>> /\ stderr = <<>> /\ run = 1
    /\ PadIdle /\ ParseIdle /\ SchemaIdle /\ WriteIdle /\ CombineIdle /\ DumpIdle

validateKeeps == <<val_tx, val_tb, columns, df, period_columns, fact_df, profit_rows, final_df,
                   store, store_before, warnings, exit_status, run, prog, padVars, parseVars,
                   schemaVars, writeVars, combineVars, dumpVars, open_cons>>

\* the except clauses of lines 213-227: the error is printed, False is returned
ReturnFalse(type, what) ==
    /\ error' = Raised(type, what, <<>>)
    /\ stderr' = <<error'>>
    /\ val_out' = [val_out EXCEPT !.returned = <<FALSE>>]
    /\ pc' = "v_returned"

\* line 194, read_transaction_codes (lines 34-44)
ValReadTransactions ==
    /\ pc = "v_start"
    /\ IF ~val_tx.file THEN ReturnFalse("FileNotFoundError", "transactions")
       ELSE IF ~val_tx.column THEN ReturnFalse("KeyError", "CodeGrootboekrekening")
       ELSE /\ val_out' = [val_out EXCEPT !.transaction_codes = unique_codes(val_tx.cells)]
            /\ pc' = "v_read1"
            /\ UNCHANGED <<error, stderr>>
    /\ UNCHANGED validateKeeps

\* line 195, read_trial_balance_codes (lines 60-70)
ValReadTrialBalances ==
    /\ pc = "v_read1"
    /\ IF ~val_tb.file THEN ReturnFalse("FileNotFoundError", "trial balances")
       ELSE IF ~val_tb.column THEN ReturnFalse("KeyError", "CodeGrootboekrekening")
       ELSE /\ val_out' = [val_out EXCEPT !.trial_balance_codes = unique_codes(val_tb.cells)]
            /\ pc' = "v_read2"
            /\ UNCHANGED <<error, stderr>>
    /\ UNCHANGED validateKeeps

\* lines 198-200
ValValidateCodes ==
    /\ pc = "v_read2"
    /\ LET r == validate_codes(val_out.transaction_codes, val_out.trial_balance_codes)
       IN  val_out' = [val_out EXCEPT !.missing_codes = r.missing_codes,
                                      !.extra_codes = r.extra_codes,
                                      !.common_codes = r.common_codes]
    /\ pc' = "v_validated"
    /\ UNCHANGED <<error, stderr, validateKeeps>>

\* lines 203-211, print_validation_report (lines 116-166): line 125 divides by
\* len(transaction_codes); the ZeroDivisionError is caught at line 223
ValPrintReport ==
    /\ pc = "v_validated"
    /\ IF Cardinality(val_out.transaction_codes) = 0
       THEN ReturnFalse("ZeroDivisionError", "division by zero")
       ELSE /\ val_out' = [val_out EXCEPT !.returned = <<val_out.missing_codes = {}>>]
            /\ pc' = "v_returned"
            /\ UNCHANGED <<error, stderr>>
    /\ UNCHANGED validateKeeps

\* main, lines 230-264: the status is 1 only when --strict was given and the
\* validation did not pass; main has no try/except
ValMainReturn ==
    /\ pc = "v_returned" /\ exit_status = <<>>
    /\ exit_status' = <<IF val_out.strict /\ val_out.returned = <<FALSE>> THEN 1 ELSE 0>>
    /\ UNCHANGED <<pc, pipeVars, warnings, stderr, run, prog, nonPipeVars>>

NextValidate ==
    \/ ValReadTransactions \/ ValReadTrialBalances \/ ValValidateCodes \/ ValPrintReport
    \/ ValMainReturn

SpecValidate == InitValidate /\ [][NextValidate]_vars

(***************************************************************************)
(* SpecMains: the entry points, one of them started.                       *)
(***************************************************************************)
InitMains == Init \/ InitDump \/ InitCombine \/ InitValidate
NextMains == Next \/ NextDump \/ NextCombine \/ NextValidate
SpecMains == InitMains /\ [][NextMains]_vars

(***************************************************************************)
(* Claims about pad_account_code and parse_period_column.                  *)
(***************************************************************************)

\* C1: a padded code of length >= 4 is the code unchanged; a shorter one has
\* length exactly 4, ends with the original string and is filled with "0" on
\* the left.
C1_PadContract ==
    pc = "pad_done" =>
        LET s == astype_str(code_in)
        IN  IF Len(s) >= 4
            THEN code_out = s
            ELSE /\ Len(code_out) = 4
                 /\ SubSeq(code_out, 4 - Len(s) + 1, 4) = s
                 /\ \A i \in 1..(4 - Len(s)) : code_out[i] = "0"

DutchMonths == << <<"j", "a", "n", "u", "a", "r", "i">>,
                  <<"f", "e", "b", "r", "u", "a", "r", "i">>,
                  <<"m", "a", "a", "r", "t">>,
                  <<"a", "p", "r", "i", "l">>,
                  <<"m", "e", "i">>,
                  <<"j", "u", "n", "i">>,
                  <<"j", "u", "l", "i">>,
                  <<"a", "u", "g", "u", "s", "t", "u", "s">>,
                  <<"s", "e", "p", "t", "e", "m", "b", "e", "r">>,
                  <<"o", "k", "t", "o", "b", "e", "r">>,
                  <<"n", "o", "v", "e", "m", "b", "e", "r">>,
                  <<"d", "e", "c", "e", "m", "b", "e", "r">> >>
MonthText == << <<"0", "1">>, <<"0", "2">>, <<"0", "3">>, <<"0", "4">>, <<"0", "5">>,
                <<"0", "6">>, <<"0", "7">>, <<"0", "8">>, <<"0", "9">>, <<"1", "0">>,
                <<"1", "1">>, <<"1", "2">> >>
\* the Gregorian month lengths, stated without the calendar module's table
GregorianDays(y, m) ==
    IF m \in {4, 6, 9, 11} THEN 30
    ELSE IF m # 2 THEN 31
    ELSE IF y % 400 = 0 THEN 29
    ELSE IF y % 100 = 0 THEN 28
    ELSE IF y % 4 = 0 THEN 29 ELSE 28
HeaderOf(word, y) == {v \o y : v \in CaseVariants(word)}

\* C2: a header made of a Dutch month name m (number n), in any letter case,
\* and a four-digit year y parses to key "y-nn" and the last Gregorian day of
\* month n of year y; "Openingsbalans" + y parses to key "y-00" and 1 January.
C2_KeywordYearPeriod ==
    pc = "parse_done" =>
        /\ \A n \in 1..12, y \in FourDigitYears :
              col_name \in HeaderOf(DutchMonths[n], y) =>
                  parsed = ParsedPair(y \o <<"-">> \o MonthText[n],
                                      <<DigitsToNat(y), n, GregorianDays(DigitsToNat(y), n)>>)
        /\ \A y \in FourDigitYears :
              col_name \in HeaderOf(OPENING, y) =>
                  parsed = ParsedPair(y \o <<"-", "0", "0">>, <<DigitsToNat(y), 1, 1>>)

C2_Witness ==
    /\ pc = "parse_done"
    /\ col_name = <<"F", "E", "B", "R", "U", "A", "R", "I", "2", "0", "2", "4">>
    /\ parsed.kind = "pair"
    /\ parsed.date = <<2024, 2, 29>>

\* C3: parse_period_column returns a pair or None for every header string and
\* never raises; a header matching no keyword returns None.
C3_ParseTotal ==
    pc = "parse_done" =>
        /\ parsed.kind \in {"pair", "none"}
        /\ (\A w \in Keywords : ~str_startswith(str_lower(col_name), w)) => parsed.kind = "none"

\* C4: every emitted period key is four year digits, a hyphen and two digits
\* that are 00 (opening balance) or 01..12 (seven characters).
C4_KeyCanonical ==
    (pc = "parse_done" /\ parsed.kind = "pair") =>
        /\ Len(parsed.key) = 7
        /\ \A i \in 1..4 : IsDigit(parsed.key[i])
        /\ parsed.key[5] = "-"
        /\ SubSeq(parsed.key, 6, 7) \in {MonthText[n] : n \in 1..12} \cup {<<"0", "0">>}

(***************************************************************************)
(* Claims about the run of transform_trial_balances.                       *)
(***************************************************************************)
Range(seq) == {seq[i] : i \in 1..Len(seq)}
IsNullCell(x) == x.t \in {"null", "none"}
PostUnpivot == pc \in {"unpivoted", "display", "profit", "final", "written", "done"}
PostDisplay == pc \in {"display", "profit", "final", "written", "done"}
PostProfit == pc \in {"profit", "final", "written", "done"}

\* the category of a reporting-group code, by equality with the fixed sets
CategoryOf(code) ==
    IF code.t # "str" THEN "none"
    ELSE IF code.s \in {<<"0", "0", "0">>, <<"0", "1", "0">>, <<"0", "2", "0">>, <<"0", "3", "0">>, <<"0", "4", "0">>, <<"0", "5", "0">>} THEN "Activa"
    ELSE IF code.s \in {<<"0", "6", "0">>, <<"0", "6", "5">>, <<"0", "7", "0">>, <<"0", "8", "0">>} THEN "Passiva"
    ELSE IF code.s \in {<<"5", "0", "0">>, <<"5", "1", "0">>} THEN "Gross Margin"
    ELSE IF code.s \in {<<"5", "2", "0">>, <<"5", "3", "0">>, <<"5", "4", "0">>, <<"5", "5", "0">>} THEN "Expenses"
    ELSE "none"

\* C5: for every fact row (organic or profit) the display value is null iff
\* the reporting-group code is in no category; it is the raw value for Activa
\* and the negated raw value for Passiva, Gross Margin and Expenses.
C5_DisplayValueByCategory ==
    PostDisplay =>
        \A row \in Range(fact_df) \cup (IF PostProfit THEN Range(profit_rows) ELSE {}) :
            LET cat == CategoryOf(row.Code1)
            IN  /\ IsNullCell(row.DisplayValue) <=> cat = "none"
                /\ cat = "Activa" => row.DisplayValue = row.Value
                /\ cat \in {"Passiva", "Gross Margin", "Expenses"} =>
                       /\ row.DisplayValue.t = "num"
                       /\ row.DisplayValue.n = 0 - row.Value.n

C5_Witness ==
    /\ pc = "display"
    /\ \E b, c \in Range(fact_df) :
          /\ CategoryOf(b.Code1) = "Expenses" /\ b.Value = NumV(5) /\ b.DisplayValue = NumV(0 - 5)
          /\ c.Code1 = StrV(<<"5", "2", "0", "0">>) /\ c.DisplayValue = NoneV

\* the period columns the parser recognizes, by position
Recognized == {i \in 1..Len(columns) : parse_period_column(columns[i]).kind = "pair"}
NullPeriodCell == \E r \in 1..Len(df), i \in Recognized : IsNullCell(df[r][i])

\* C6: the number of long rows after the unpivot and null-drop is at most
\* (wide rows) x (recognized period columns), with equality iff no period
\* cell of the wide table is null.
C6_ReshapeRowCount ==
    pc = "unpivoted" =>
        LET rec == Recognized
            cells == Len(df) * Cardinality(rec)
            nulls == \E r \in 1..Len(df), i \in rec : IsNullCell(df[r][i])
        IN  /\ Len(fact_df) <= cells
            /\ (Len(fact_df) = cells) <=> ~nulls

C6_Witness ==
    /\ pc = "unpivoted"
    /\ Len(df) = 2 /\ Cardinality(Recognized) = 2
    /\ NullPeriodCell
    /\ Len(fact_df) = 3

\* a missing value compares equal to a missing value
NormNull(x) == IF IsNullCell(x) THEN NullV ELSE x
\* the reporting-group code as the three-digit text of its integer value
GroupAsText(x) ==
    IF IsNullCell(x) THEN NullV
    ELSE LET n == IF x.t = "num" THEN x.n ELSE PyInt(x.s).n
         IN  IF n \in 0..999
             THEN StrV(<<Digits[(n \div 100) + 1], Digits[((n \div 10) % 10) + 1], Digits[(n % 10) + 1]>>)
             ELSE IF n \in (0 - 9)..(0 - 1)
             THEN StrV(<<"-", "0", Digits[(0 - n) + 1]>>)
             ELSE StrV(IntToStr(n))

\* what the pair (wide row r, period column i) is unpivoted to; the
\* reporting-group code is carried as text (asText) or as it is in the wide row
ExpectedFact(r, i, asText) ==
    [CodeGrootboekrekening |-> CellOf(columns, df[r], COL_ACCOUNT),
     NaamAdministratie |-> CellOf(columns, df[r], COL_ENTITY),
     CodeRelatiekostenplaats |-> CellOf(columns, df[r], COL_CC_CODE),
     NaamRelatiekostenplaats |-> CellOf(columns, df[r], COL_CC_NAME),
     Code0 |-> CellOf(columns, df[r], COL_DIMTYPE),
     Code1 |-> IF asText THEN GroupAsText(CellOf(columns, df[r], COL_GROUP1))
               ELSE NormNull(CellOf(columns, df[r], COL_GROUP1)),
     Value |-> df[r][i],
     JaarPeriode |-> StrV(parse_period_column(columns[i]).key),
     LastDate |-> parse_period_column(columns[i]).date]
FactView(f) == [f EXCEPT !.Code1 = NormNull(f.Code1)]
NonNullPairs == {p \in (1..Len(df)) \X Recognized : ~IsNullCell(df[p[1]][p[2]])}
\* the long rows are, with multiplicity, the images of the non-null pairs
UnpivotIs(asText) ==
    LET want(p) == ExpectedFact(p[1], p[2], asText)
        have(k) == FactView(fact_df[k])
    IN  /\ \A k \in 1..Len(fact_df) : \E p \in NonNullPairs : want(p) = have(k)
        /\ \A p \in NonNullPairs :
              Cardinality({k \in 1..Len(fact_df) : have(k) = want(p)})
                  = Cardinality({q \in NonNullPairs : want(q) = want(p)})

\* the unpivot step (lines 167-192) has run: it produced the fact rows, or
\* int(x) of line 186 raised on a reporting-group code
UnpivotRan == pc = "unpivoted" \/ (pc = "failed" /\ error.what = "int(Code1)")

\* C7: once the unpivot step has run on a wide table, each wide row r and
\* recognized period column c with a non-null cell has its fact row: r's
\* account code, entity, cost-center code and name and dimension type
\* unchanged, r's reporting-group code (in the three-digit form of the data
\* model, 10 -> "010"), Value equal to the cell, and the key and end-date
\* parsed from c's header; a pair whose cell is null has no fact row.
C7_UnpivotRows == UnpivotRan => (pc = "unpivoted" /\ UnpivotIs(TRUE))

\* C8: when an identity column is absent the run fails with an error naming
\* the missing columns, nothing is reshaped, synthesized or written, and the
\* store is as the run found it.
C8_MissingIdentityHalts ==
    LET miss == {c \in Range(id_columns) : ~InSeq(columns, c)}
    IN  (pc # "start" /\ columns # <<>> /\ miss # {}) =>
            /\ pc \in {"loaded", "identified", "failed"}
            /\ pc = "failed" =>
                   /\ error.what = "Missing required columns"
                   /\ Range(error.missing) = miss
            /\ fact_df = <<>> /\ profit_rows = <<>> /\ final_df = <<>>
            /\ store = store_before

\* the (entity, period) pairs that have a balance-sheet fact row
BalancePairs ==
    {<<f.NaamAdministratie, f.JaarPeriode>> : f \in {g \in Range(fact_df) : g.Code0 = StrV(<<"B", "A", "S">>)}}
ProfitRowsOf(e, p) ==
    {k \in 1..Len(profit_rows) :
        profit_rows[k].NaamAdministratie = e /\ profit_rows[k].JaarPeriode = p}

\* C9: the profit rows are exactly one row, with account code "9999", per
\* (entity, period) pair that has at least one "BAS" fact row; other pairs
\* get none.
C9_ProfitRowPerPair ==
    PostProfit =>
        /\ \A pair \in BalancePairs : Cardinality(ProfitRowsOf(pair[1], pair[2])) = 1
        /\ \A k \in 1..Len(profit_rows) :
              /\ profit_rows[k].CodeGrootboekrekening = StrV(<<"9", "9", "9", "9">>)
              /\ <<profit_rows[k].NaamAdministratie, profit_rows[k].JaarPeriode>> \in BalancePairs

C9_Witness ==
    /\ pc = "profit"
    /\ Len(profit_rows) = 2
    /\ \E f \in Range(fact_df) :
          /\ f.Code0 # StrV(<<"B", "A", "S">>)
          /\ <<f.NaamAdministratie, f.JaarPeriode>> \notin BalancePairs

\* the sum of the raw values of the balance-sheet fact rows of a pair
RECURSIVE BalanceSum(_, _, _)
BalanceSum(k, e, p) ==
    IF k = 0 THEN 0
    ELSE BalanceSum(k - 1, e, p)
         + (IF fact_df[k].Code0 = StrV(<<"B", "A", "S">>) /\ fact_df[k].NaamAdministratie = e
               /\ fact_df[k].JaarPeriode = p
            THEN fact_df[k].Value.n ELSE 0)

\* C10: for every (entity, period) group with a "BAS" fact row the profit
\* row's Value is the negated sum of the raw values of the group's
\* balance-sheet rows and its DisplayValue is that sum.
C10_ProfitBalance ==
    PostProfit =>
        \A pair \in BalancePairs :
            /\ ProfitRowsOf(pair[1], pair[2]) # {}
            /\ \A k \in ProfitRowsOf(pair[1], pair[2]) :
                  /\ profit_rows[k].Value = NumV(0 - BalanceSum(Len(fact_df), pair[1], pair[2]))
                  /\ profit_rows[k].DisplayValue = NumV(BalanceSum(Len(fact_df), pair[1], pair[2]))

C10_Witness ==
    /\ pc = "profit"
    /\ \E k \in 1..Len(profit_rows) :
          /\ profit_rows[k].Value = NumV(0 - 10)
          /\ profit_rows[k].DisplayValue = NumV(10)
          /\ Cardinality({i \in 1..Len(fact_df) :
                 /\ fact_df[i].Code0 = StrV(<<"B", "A", "S">>)
                 /\ fact_df[i].NaamAdministratie = profit_rows[k].NaamAdministratie
                 /\ fact_df[i].JaarPeriode = profit_rows[k].JaarPeriode}) = 2

\* every fact row of the pipeline's table: organic rows, then profit rows
AllFactRows == fact_df \o profit_rows
EntityPeriodPairs == {<<f.NaamAdministratie, f.JaarPeriode>> : f \in Range(AllFactRows)}

\* the sum of the display values of a pair's rows, missing values skipped
RECURSIVE DisplaySum(_, _, _)
DisplaySum(k, e, p) ==
    IF k = 0 THEN 0
    ELSE DisplaySum(k - 1, e, p)
         + (IF AllFactRows[k].NaamAdministratie = e /\ AllFactRows[k].JaarPeriode = p
               /\ AllFactRows[k].DisplayValue.t = "num"
            THEN AllFactRows[k].DisplayValue.n ELSE 0)

\* the sum of the raw values of a pair's balance-sheet rows, profit row included
RECURSIVE RawBalanceSum(_, _, _)
RawBalanceSum(k, e, p) ==
    IF k = 0 THEN 0
    ELSE RawBalanceSum(k - 1, e, p)
         + (IF AllFactRows[k].NaamAdministratie = e /\ AllFactRows[k].JaarPeriode = p
               /\ AllFactRows[k].Code0 = StrV(<<"B", "A", "S">>)
            THEN AllFactRows[k].Value.n ELSE 0)

\* C11: for every entity and period the display values of all fact rows,
\* the profit row included, sum to zero.
C11_DisplaySumsZero ==
    PostProfit =>
        \A pair \in EntityPeriodPairs : DisplaySum(Len(AllFactRows), pair[1], pair[2]) = 0

\* C11, on raw values: for every entity and period the raw values of the
\* balance-sheet fact rows, the profit row included, sum to zero.
C11_RawBalanceSumsZero ==
    PostProfit =>
        \A pair \in EntityPeriodPairs : RawBalanceSum(Len(AllFactRows), pair[1], pair[2]) = 0

C11_Witness ==
    /\ pc = "profit"
    /\ \E k \in 1..Len(profit_rows) :
          LET e == profit_rows[k].NaamAdministratie
              p == profit_rows[k].JaarPeriode
          IN  /\ profit_rows[k].Value = NumV(0 - 10)
              /\ \E a, b \in Range(fact_df) :
                    /\ a.NaamAdministratie = e /\ a.JaarPeriode = p
                    /\ b.NaamAdministratie = e /\ b.JaarPeriode = p
                    /\ CategoryOf(a.Code1) = "Activa" /\ CategoryOf(b.Code1) = "Passiva"
              /\ DisplaySum(Len(AllFactRows), e, p) = 10
              /\ RawBalanceSum(Len(AllFactRows), e, p) = 0

(***************************************************************************)
(* Claims about apply_schema.                                              *)
(***************************************************************************)
\* C12: apply_schema applied to its own result, with the same schema, returns
\* that result: the same columns, the same dtype and the same cells.
C12_SchemaIdempotent ==
    pc = "schema_twice" =>
        /\ sch_twice.cols = sch_once.cols
        /\ sch_twice.data = sch_once.data

C12_Witness ==
    /\ pc = "schema_twice"
    /\ sch_df.cols = <<"Saldo", "Omschrijving">>
    /\ sch_df.data[1] = Column("object", <<StrV(<<"1", "2">>), StrV(<<"x">>)>>)
    /\ sch_df.data[2] = Column("object", <<NoneV, StrV(<<"x">>)>>)
    /\ sch_once.data[1] = Column("float64", <<FloatV(120), NullV>>)
    /\ sch_once.data[2] = Column("object", <<StrV(<<"N", "o", "n", "e">>), StrV(<<"x">>)>>)
    /\ sch_twice.data = sch_once.data

NumericTypes == {"float64", "Float64", "Int64", "int64"}
IntegerTypes == {"Int64", "int64"}
TemporalTypes == {"datetime64[ns]"}
\* the texts of the checked tables that are numbers, and those that are dates
NumberTexts == {<<"1", "2">>, <<"1", ".", "5">>}
DateTexts == {<<"2", "0", "2", "5", "-", "0", "1", "-", "3", "1">>}
\* an element that cannot be converted to the declared type
Unparseable(x, dtype) ==
    \/ dtype \in NumericTypes /\ x.t = "str" /\ x.s \notin NumberTexts
    \/ dtype \in TemporalTypes /\ x.t = "str" /\ x.s \notin DateTexts
NotWhole(x) == x \in {StrV(<<"1", ".", "5">>), FloatV(15)}
Unconvertible(x, dtype) == Unparseable(x, dtype) \/ (dtype \in IntegerTypes /\ NotWhole(x))
Declared == {sch_schema[j] : j \in 1..Len(sch_schema)}
Present(e) == \E k \in 1..Len(sch_df.cols) : sch_df.cols[k] = e.col
Warned(col) == \E w \in 1..Len(sch_once.warnings) : sch_once.warnings[w].col = col
SameShape ==
    /\ sch_once.cols = sch_df.cols
    /\ Len(sch_once.data) = Len(sch_df.data)
    /\ \A k \in 1..Len(sch_df.data) : Len(sch_once.data[k].cells) = Len(sch_df.data[k].cells)

\* C13: apply_schema returns a table; every element that cannot be converted
\* to the declared numeric or temporal type of its column is null in the
\* result and a warning is reported for it; a declared column that is absent
\* is reported and the other declared columns are coerced.
C13_UnconvertibleWarned ==
    pc = "schema_once" =>
        /\ SameShape
        /\ \A e \in Declared :
              IF ~Present(e) THEN Warned(e.col)
              ELSE LET k == Position(sch_df.cols, e.col)
                   IN  \A i \in 1..Len(sch_df.data[k].cells) :
                          Unconvertible(sch_df.data[k].cells[i], e.dtype) =>
                              /\ sch_once.data[k].cells[i] = NullV
                              /\ Warned(e.col)

(***************************************************************************)
(* Claims about the write and the end of the run.                          *)
(***************************************************************************)
\* C14: once the write has succeeded the table holds exactly the rows this
\* run computed, whatever it held before; after a second run on the same
\* workbook the table is the one the first run left.
C14_FullReplace ==
    pc \in {"written", "done"} =>
        /\ store = [exists |-> TRUE, rows |-> final_df]
        /\ run = 2 => store = store_before

C14_Witness ==
    /\ pc = "done" /\ run = 2
    /\ exit_status = <<0>>
    /\ Len(store.rows) >= 3
    /\ store = store_before
    /\ store.rows = final_df
    /\ \A i \in 1..Len(store.rows) : store.rows[i] \notin Range(OldStore.rows)

\* the failures the run can end with before or while it writes
FatalBeforeOrAtWrite ==
    {"read_excel", "parse_period_column", "Missing required columns", "int(Code1)",
     "DisplayValue of an empty frame", "duckdb.connect", "CREATE TABLE"}

\* C15: a run that failed left in the table no part of its result: the table
\* is as the run found it or is absent; only a failure that comes after the
\* completed write leaves a table, and then the whole result.
C15_NoPartialResult ==
    pc = "failed" =>
        /\ error.what \in FatalBeforeOrAtWrite => (store = store_before \/ store = NoStore)
        /\ error.what \notin FatalBeforeOrAtWrite => store = [exists |-> TRUE, rows |-> final_df]

C15_Witness ==
    /\ pc = "failed"
    /\ error.what = "CREATE TABLE"
    /\ Len(final_df) >= 2
    /\ store_before = OldStore
    /\ store = NoStore

(***************************************************************************)
(* The end-to-end scenario and the uniqueness of fact rows.                *)
(***************************************************************************)
\* a wide input of one or more rows, every row of the same entity with
\* account "100", dimension type "BAS", group 10, Openingsbalans2025 = 500 and
\* januari2025 = 600
Scenario ==
    /\ columns = id_columns \o <<H_OPENING_2025, H_JANUARI_2025>>
    /\ Len(df) >= 1
    /\ \A r \in 1..Len(df) :
          /\ CellOf(columns, df[r], COL_ACCOUNT) = StrV(<<"1", "0", "0">>)
          /\ CellOf(columns, df[r], COL_ENTITY) = CellOf(columns, df[1], COL_ENTITY)
          /\ CellOf(columns, df[r], COL_DIMTYPE) = StrV(<<"B", "A", "S">>)
          /\ CellOf(columns, df[r], COL_GROUP1) = NumV(10)
          /\ CellOf(columns, df[r], H_OPENING_2025) = NumV(500)
          /\ CellOf(columns, df[r], H_JANUARI_2025) = NumV(600)
KeyValue(rows) == {<<r.JaarPeriode, r.Value, r.DisplayValue>> : r \in Range(rows)}
\* the figures of the outcome for n scenario rows
ScenarioOutcome(n) ==
    /\ PostDisplay =>
          /\ \A f \in Range(fact_df) :
                f.Code1 = StrV(<<"0", "1", "0">>) /\ CategoryOf(f.Code1) = "Activa"
          /\ KeyValue(fact_df) = {<<StrV(<<"2", "0", "2", "5", "-", "0", "0">>), NumV(500), NumV(500)>>,
                                  <<StrV(<<"2", "0", "2", "5", "-", "0", "1">>), NumV(600), NumV(600)>>}
    /\ PostProfit =>
          /\ Len(profit_rows) = 2
          /\ \A p \in Range(profit_rows) : p.CodeGrootboekrekening = StrV(<<"9", "9", "9", "9">>)
          /\ KeyValue(profit_rows) = {<<StrV(<<"2", "0", "2", "5", "-", "0", "0">>), NumV(0 - 500 * n), NumV(500 * n)>>,
                                      <<StrV(<<"2", "0", "2", "5", "-", "0", "1">>), NumV(0 - 600 * n), NumV(600 * n)>>}
    /\ pc \in {"final", "written", "done"} =>
          /\ \E k \in 0..Len(final_df) :
                /\ \A i \in 1..k : final_df[i].CodeGrootboekrekening = StrV(<<"0", "1", "0", "0">>)
                /\ \A i \in (k + 1)..Len(final_df) :
                      final_df[i].CodeGrootboekrekening = StrV(<<"9", "9", "9", "9">>)
          /\ KeyValue(final_df) = KeyValue(fact_df) \cup KeyValue(profit_rows)
\* the number of rows of the outcome for n scenario rows
ScenarioCounts(n) ==
    /\ PostDisplay => Len(fact_df) = 2 * n
    /\ pc \in {"final", "written", "done"} =>
          /\ Len(final_df) = 2 * n + 2
          /\ \A i \in 1..(2 * n) : final_df[i].CodeGrootboekrekening = StrV(<<"0", "1", "0", "0">>)
          /\ \A i \in (2 * n + 1)..(2 * n + 2) : final_df[i].CodeGrootboekrekening = StrV(<<"9", "9", "9", "9">>)

\* C18 (as stated): in the scenario, whatever the number of its rows, the
\* fact rows have period keys "2025-00" and "2025-01", group "010" (Activa)
\* and display values 500 and 600, there is one profit row per period with
\* account "9999", values -500 and -600 and display values 500 and 600, and
\* the organic rows are written with account code "0100".
C18_ScenarioFigures == Scenario => ScenarioOutcome(1)

\* C18 (amended): in the scenario with n rows each row gives its two fact
\* rows (2 * n in all), with period keys "2025-00" and "2025-01", group "010"
\* (Activa) and display values 500 and 600; there is one profit row per period
\* with account "9999", values -500 * n and -600 * n and display values
\* 500 * n and 600 * n; the 2 * n organic rows are written with account code
\* "0100", followed by the two profit rows.  The figures of the statement are
\* those of n = 1.
C18_EndToEnd == Scenario => (ScenarioOutcome(Len(df)) /\ ScenarioCounts(Len(df)))

C18_Witness ==
    /\ Scenario
    /\ Len(df) = 2
    /\ pc = "done"
    /\ store.rows = final_df
    /\ Len(final_df) = 6
    /\ final_df[1].CodeGrootboekrekening = StrV(<<"0", "1", "0", "0">>)
    /\ final_df[5].Value \in {NumV(0 - 1000), NumV(0 - 1200)}

\* the attributes that identify a wide row, and those that identify a fact row
IdentityOf(row) == [c \in 1..Len(id_columns) |-> NormNull(CellOf(columns, row, id_columns[c]))]
DistinctIdentities == \A i, j \in 1..Len(df) : i # j => IdentityOf(df[i]) # IdentityOf(df[j])
FactKey(f) ==
    <<NormNull(f.CodeGrootboekrekening), NormNull(f.NaamAdministratie),
      NormNull(f.CodeRelatiekostenplaats), NormNull(f.NaamRelatiekostenplaats),
      NormNull(f.Code0), NormNull(f.Code1), f.JaarPeriode>>

\* C19: when the wide rows have pairwise distinct identity tuples, no two
\* fact rows of the unpivot have the same account code, entity, cost center,
\* dimension type, group code and period key.
C19_FactRowsUnique ==
    (pc = "unpivoted" /\ DistinctIdentities) =>
        \A i, j \in 1..Len(fact_df) : i # j => FactKey(fact_df[i]) # FactKey(fact_df[j])

(***************************************************************************)
(* Claims about combine_databases.                                         *)
(***************************************************************************)
Combined == prog = "combine_databases" /\ pc = "done"
Executed(statement) == InSeq(sql_log, statement)

\* C17: after a successful combine the output holds transactions
\* and fct_TrialBalances with the row counts of the two sources, and the
\* combine step verified this by comparing the counts after the copy with
\* the counts read from the sources before the copy.
C17_CountsVerified ==
    Combined =>
        /\ out_db.transactions.exists /\ out_db.fct_TrialBalances.exists
        /\ Len(out_db.transactions.rows) = Len(src1.table.rows)
        /\ Len(out_db.fct_TrialBalances.rows) = Len(src2.table.rows)
        /\ Executed("SELECT COUNT(*) FROM source1.transactions")
        /\ Executed("SELECT COUNT(*) FROM source2.fct_TrialBalances")

\* C20: at the end of a run, normal or by an exception, no connection is open.
C20_ConnectionsClosed ==
    pc \in {"done", "failed"} => open_cons = 0

(***************************************************************************)
(* Claims about the three entry points.                                    *)
(***************************************************************************)
PipelineMains == {"transform_trial_balances", "process_dump", "combine_databases"}
Returned == exit_status # <<>> /\ prog \in PipelineMains
TableWritten ==
    CASE prog = "transform_trial_balances" -> store.exists /\ store.rows = final_df
      [] prog = "process_dump" -> dump_store = [exists |-> TRUE, table |-> dump_df]
      [] OTHER -> out_db.transactions.exists /\ out_db.fct_TrialBalances.exists

\* C16: for the three pipeline entry points (transform_trial_balances,
\* process_dump, combine_databases),
\* the status of main is non-zero exactly when the run ended by an
\* exception, and then the message of the exception was reported; a run that
\* only met warnings was not halted: it wrote its table and its status is 0.
C16_ExitStatus ==
    Returned =>
        /\ exit_status \in {<<0>>, <<1>>}
        /\ (exit_status = <<1>>) <=> (error # NoError)
        /\ (exit_status = <<1>>) <=> (pc = "failed")
        /\ exit_status = <<1>> => stderr = <<error>>
        /\ exit_status = <<0>> => stderr = <<>> /\ TableWritten
        /\ (warnings # {} /\ error = NoError) => exit_status = <<0>> /\ TableWritten

C16_Witness ==
    /\ Returned /\ exit_status = <<0>> /\ warnings # {} /\ prog = "process_dump"
    /\ \E w \in warnings : w.what # "not found"

\* C22: a run of combine_databases whose two sources hold their tables and
\* whose connection opens succeeds whatever the output held before, an
\* earlier run's tables included, and leaves the output holding the rows of
\* the two source tables.
C22_OverwritesOutput ==
    (/\ prog = "combine_databases" /\ pc \in {"done", "failed"}
     /\ error.what # "duckdb.connect"
     /\ src1.table.exists /\ src2.table.exists)
        => /\ pc = "done"
           /\ out_db.transactions = Tbl(src1.table.rows)
           /\ out_db.fct_TrialBalances = Tbl(src2.table.rows)

(***************************************************************************)
(* Claims about write_to_duckdb.                                           *)
(***************************************************************************)
\* C21: write_to_duckdb returns the number of rows of the DataFrame it was
\* given, in each mode and whatever the table held before; a value of
\* if_exists outside the three modes raises ValueError before anything is
\* touched.
C21_ReturnsRowsWritten ==
    prog = "write_to_duckdb" =>
        /\ pc = "done" => row_count = <<Len(final_df)>>
        /\ (if_exists \notin WriteModes /\ pc # "w_start") =>
               /\ pc = "failed" /\ error.type = "ValueError"
               /\ sql_log = <<>> /\ store = store_before /\ open_cons = 0

(***************************************************************************)
(* Claims about validate_account_codes.                                    *)
(***************************************************************************)
\* C23: for two files that hold the column, validate_account_codes returns
\* True exactly when every padded code of the transactions is a padded code
\* of the trial balances, an empty set of transaction codes included; the
\* sets missing, extra and common of validate_codes are pairwise disjoint,
\* missing + common are the transaction codes and extra + common the trial
\* balance codes.
C23_ValidationResult ==
    (prog = "validate_account_codes" /\ pc = "v_returned" /\ val_tx.column /\ val_tb.column) =>
        /\ val_out.returned = <<unique_codes(val_tx.cells) \subseteq unique_codes(val_tb.cells)>>
        /\ val_out.missing_codes \cap val_out.extra_codes = {}
        /\ val_out.missing_codes \cap val_out.common_codes = {}
        /\ val_out.extra_codes \cap val_out.common_codes = {}
        /\ val_out.missing_codes \cup val_out.common_codes = unique_codes(val_tx.cells)
        /\ val_out.extra_codes \cup val_out.common_codes = unique_codes(val_tb.cells)

====
